---- MODULE Spec2Model ----
(***************************************************************************)
(* A model of mqtt-recorder-rs.                                            *)
(*                                                                         *)
(* Spec        the Recording Stream Manager of the library crate           *)
(*             (src/src/file_manager.rs, TopicFileManager) together with   *)
(*             the part of the Statistics Engine it drives                 *)
(*             (src/src/stats.rs, StatsManager / TopicStats).              *)
(* SpecIRecord the `irecord` loop of the binary (src/src/main.rs): the     *)
(*             broker event loop and the cleanup timer around the binary's *)
(*             own TopicFileManager.                                       *)
(*                                                                         *)
(* Time.  Instant::now() is the variable `now`, counted in ticks of        *)
(* 1/TicksPerSec second, so that Duration::as_secs() really truncates.     *)
(* The wall clock (chrono::Local::now()) is taken to advance with the      *)
(* monotonic clock: wall second = now \div TicksPerSec.  A handler runs at *)
(* one instant.                                                            *)
(*                                                                         *)
(* Environment.  fs::create_dir_all / OpenOptions::open may fail: by a     *)
(* name collision (create_new) or by any other I/O error, which is the     *)
(* input `io` of a write.  Appending to an open file, and opening and      *)
(* appending to a statistics file, are taken to succeed.                   *)
(*                                                                         *)
(* Data.  A record line is identified by the index of the write_message    *)
(* call that carried it.  A topic is a sequence of characters.  A base     *)
(* timestamp (%Y%m%d-%H%M%S) is the wall second it denotes; the date       *)
(* directory (%Y-%m-%d) is the wall day.                                   *)
(***************************************************************************)
EXTENDS Integers, Sequences, FiniteSets, TLC

\* ---------------------------------------------------------------- bounds
\* Clock resolution: ticks per second.
TicksPerSec == 2
\* The clock stops at MaxTime ticks.
MaxTime == 4
\* Number of write_message calls (Spec) or deliveries (SpecIRecord) explored.
MaxWrites == 4
\* Configured idle timeouts explored by Spec: 1..MaxTimeoutSecs seconds.
MaxTimeoutSecs == 1
\* SpecIRecord: the clock stops at MaxIRecordTime ticks.
MaxIRecordTime == 8
\* SpecIRecord: values of --sec explored: 0..MaxIRecordSecs seconds.
MaxIRecordSecs == 2
\* Number of file creations the environment fails for a reason other than a
\* name collision.
MaxIoFailures == 1
\* Length of a wall-clock day in seconds (86400, scaled to the time horizon).
SecsPerDay == 2
\* SpecStats: number of add_message calls explored.
MaxMessages == 3
\* SpecDiscover: number of files under the directory that the Recording Stream
\* Manager did not make.
MaxOtherFiles == 1
\* SpecReplay: number of files of a pass, of lines of a file, and of passes of
\* a looping replay.
MaxReplayFiles == 2
MaxLines == 2
MaxPasses == 2
\* SpecCodec: length of the payloads explored.
MaxPayloadLen == 4
\* SpecSession: number of write_message calls explored.
MaxSessionWrites == 7

\* The longest file of a replay followed to its end.
MaxLiveLines == 1

\* SpecLayout: length of the topic strings explored.
MaxTopicLen == 4

\* ------------------------------------------------------ program constants
\* TopicFileManager::new sets max_messages_per_file to 100_000.  The model
\* scales it down and keeps it even, as 100_000 is.
max_messages_per_file == 4

\* cap of EventLoop::new(mqttoptions, cap): the capacity of the request channel.
requests_cap == 20

\* Topics a broker delivers.
Topics == { <<"a", "/", "b">>, <<"c">> }

\* What the environment does to a file creation of this write.
IoOutcomes == { "ok", "topic_create_fails", "all_topics_create_fails" }

\* Whether a payload feeds the statistics (JSON with a leaf under a key).
PayloadIsJson == { TRUE }

\* Statistics intervals a caller configures, in seconds.
StatsIntervals == { 1 }

VARIABLES
    now,                        \* Instant::now(), in ticks
    timeout_secs,               \* TopicFileManager.timeout_secs
    all_topics_enabled,         \* TopicFileManager.all_topics_enabled
    stats_enabled,              \* StatsManager.stats_enabled
    stats_interval_secs,        \* StatsManager.stats_interval_secs
    files,                      \* TopicFileManager.files: topic -> stream
    base_timestamps,            \* TopicFileManager.base_timestamps
    all_topics_file,            \* Option: <<>> or <<stream>>
    all_topics_base_timestamp,  \* Option: <<>> or <<timestamp>>
    topic_stats,                \* StatsManager.topic_stats: topic -> TopicStats
    disk,                       \* recording files, in creation order
    stats_files,                \* statistics files: topic -> lines
    calls,                      \* history: the write_message calls made
    idled,                      \* history: topics whose stream was closed for idleness
    capped,                     \* history: topics whose stream was rotated at the cap
    last_write,                 \* history: topic -> <<>> or <<time, path of the last appended record>>
    panicked,                   \* the process died in an unwrap() of None
    irecord,                    \* SpecIRecord: the state of the binary's irecord mode
    engine,                     \* SpecStats: one TopicStats and its statistics file
    discover,                   \* SpecDiscover: a recording directory and a listing of it
    replay,                     \* SpecReplay: the state of the binary's replay mode
    codec,                      \* SpecCodec: a payload on its way through recording and replay
    layout                      \* SpecLayout: a topic and the paths the manager builds for it

vars == << now, timeout_secs, all_topics_enabled, stats_enabled, stats_interval_secs,
           files, base_timestamps, all_topics_file, all_topics_base_timestamp,
           topic_stats, disk, stats_files, calls, idled, capped, last_write,
           panicked, irecord, engine, discover, replay, codec, layout >>

\* ------------------------------------------------------------- helpers
\* Duration::as_secs(): whole seconds of a duration given in ticks.
as_secs(d) == d \div TicksPerSec

\* Local::now() in whole seconds, at instant t.
WallSecs(t) == t \div TicksPerSec

\* Local::now().format("%Y%m%d-%H%M%S"): one string per wall second.
Timestamp(t) == WallSecs(t)

\* Local::now().format("%Y-%m-%d"): one string per wall day.
DateStr(t) == WallSecs(t) \div SecsPerDay

\* HashMap::remove.
MapRemove(m, k) == [x \in (DOMAIN m) \ {k} |-> m[x]]

\* HashMap::insert.
MapInsert(m, k, v) == (k :> v) @@ m

RECURSIVE ReplaceChar(_, _, _)
\* str::replace(c, r) for a one-character pattern c and a replacement r.
ReplaceChar(s, c, r) ==
    IF s = <<>> THEN <<>>
    ELSE (IF Head(s) = c THEN r ELSE <<Head(s)>>) \o ReplaceChar(Tail(s), c, r)

topic_to_path(topic) ==
    ReplaceChar(ReplaceChar(ReplaceChar(topic, "/", <<"-">>),
                            "+", <<"p", "l", "u", "s">>),
                "#", <<"h", "a", "s", "h">>)

\* A path stamped with the time of its creation and not with the base
\* timestamp of the session.
get_intelligent_file_path_stamped_now(topic, base_timestamp, file_number, t) ==
    [ dir |-> topic, date |-> DateStr(t), name |-> topic_to_path(topic),
      ts |-> Timestamp(t), num |-> file_number ]

\* <base>/<topic>/<date>/mqtt-recorder-<topic_to_path>-<base_timestamp>[-<n>].json
get_intelligent_file_path(topic, base_timestamp, file_number, t) ==
    [ dir |-> topic, date |-> DateStr(t), name |-> topic_to_path(topic),
      ts |-> base_timestamp, num |-> file_number ]

\* <base>/#/<date>/mqtt-recorder-#-<base_timestamp>[-<n>].json
get_all_topics_file_path(base_timestamp, file_number, t) ==
    [ dir |-> <<"#">>, date |-> DateStr(t), name |-> <<"#">>,
      ts |-> base_timestamp, num |-> file_number ]

\* The recording files are a sequence of [path, lines] in creation order.
Exists(d, path) == \E i \in 1..Len(d) : d[i].path = path

FileIndex(d, path) == CHOOSE i \in 1..Len(d) : d[i].path = path

\* OpenOptions::new().write(true).create_new(true).open(path), succeeding.
CreateFile(d, path) == Append(d, [path |-> path, lines |-> <<>>])

\* writeln!(file, "{}", json_message) on the open file at path.
AppendLine(d, path, rec) == [d EXCEPT ![FileIndex(d, path)].lines = Append(@, rec)]


\* ------------------------------------------------------ Statistics Engine
\* The operators below take and return the manager's state as a record s with
\* the fields files, base_timestamps, all_topics_file,
\* all_topics_base_timestamp, topic_stats, disk, stats_files; t is
\* Instant::now() of the call.
\*
\* A TopicStats is [data, last_stats_time].  Its data (key-path -> samples) is
\* kept here as the set of records that put a value into it: empty exactly when
\* the HashMap is empty.

\* TopicStats::new: the accumulator of a topic's first message.
NewTopicStats(t) == [data |-> {}, last_stats_time |-> t]

\* TopicStats::add_message: a payload that decodes to JSON with a leaf under a
\* non-empty key-path (json) adds to data; any other payload adds nothing.
TopicStats_add_message(st, rec, json) ==
    IF json THEN [st EXCEPT !.data = @ \cup {rec}] ELSE st

\* The interval check with a strict comparison.
should_calculate_stats_strict(st, t) ==
    as_secs(t - st.last_stats_time) > stats_interval_secs

should_calculate_stats(st, t) ==
    as_secs(t - st.last_stats_time) >= stats_interval_secs

\* One line of a statistics file: the window and the records it summarizes.
StatsLine(st, t) ==
    [ start |-> WallSecs(t) - as_secs(t - st.last_stats_time),
      end |-> WallSecs(t),
      samples |-> st.data ]

calculate_and_write_stats(s, topic, t) ==
    LET st == s.topic_stats[topic] IN
    IF st.data = {} THEN s
    ELSE [s EXCEPT !.stats_files[topic] = Append(@, StatsLine(st, t)),
                   !.topic_stats[topic] = [data |-> {}, last_stats_time |-> t]]

\* A rotation that forgets to flush the statistics first.
force_calculate_stats_skipped(s, topic, t) == s

force_calculate_stats_for_topic(s, topic, t) ==
    IF ~stats_enabled THEN s
    ELSE IF topic \in DOMAIN s.topic_stats THEN calculate_and_write_stats(s, topic, t)
    ELSE s

\* StatsManager::add_message
add_message(s, topic, rec, json, t) ==
    IF ~stats_enabled THEN s
    ELSE LET s1 == IF topic \notin DOMAIN s.topic_stats
                   THEN [s EXCEPT !.topic_stats = MapInsert(@, topic, NewTopicStats(t))]
                   ELSE s
         IN [s1 EXCEPT !.topic_stats[topic] = TopicStats_add_message(@, rec, json)]

RECURSIVE CalculateEach(_, _, _)
\* The loop of check_and_calculate_stats over topics_to_update.
CalculateEach(s, topics_to_update, t) ==
    IF topics_to_update = {} THEN s
    ELSE LET topic == CHOOSE x \in topics_to_update : TRUE
         IN CalculateEach(calculate_and_write_stats(s, topic, t),
                          topics_to_update \ {topic}, t)

check_and_calculate_stats(s, t) ==
    IF ~stats_enabled THEN s
    ELSE CalculateEach(s, { topic \in DOMAIN s.topic_stats :
                              should_calculate_stats(s.topic_stats[topic], t) }, t)

\* ----------------------------------------------- Recording Stream Manager
\* A stream (an entry of files, or all_topics_file) is
\* [path, last_access, message_count, file_number]; its fs::File is the file
\* of disk at path.

\* timed_out of get_or_create_file, get_or_create_all_topics_file and
\* cleanup_timeout_files (there as !should_keep).
timed_out(stream, t) == as_secs(t - stream.last_access) > timeout_secs

message_limit_reached(stream) == stream.message_count >= max_messages_per_file

NewStream(path, t, file_number) ==
    [ path |-> path, last_access |-> t, message_count |-> 0,
      file_number |-> file_number ]

\* The else branch of get_or_create_file / get_or_create_all_topics_file.
Touch(stream, t) ==
    [stream EXCEPT !.last_access = t, !.message_count = @ + 1]

\* Returns [res, s] with res "ok" (Ok(&mut file)), "err" (Err(io::Error)) or
\* "panic" (unwrap of a missing base timestamp).  io_fails: the environment
\* fails create_dir_all or open.
get_or_create_file(s, topic, t, io_fails) ==
    LET has == topic \in DOMAIN s.files
        timeout == has /\ timed_out(s.files[topic], t)
        limit == has /\ ~timeout /\ message_limit_reached(s.files[topic])
        should_remove == timeout \/ limit
        create_new_file == should_remove \/ ~has
        file_number == IF limit THEN s.files[topic].file_number + 1 ELSE 0
        use_existing_timestamp == limit
        s1 == IF should_remove THEN force_calculate_stats_for_topic(s, topic, t) ELSE s
        s2 == IF timeout THEN [s1 EXCEPT !.base_timestamps = MapRemove(@, topic)] ELSE s1
        s3 == IF should_remove THEN [s2 EXCEPT !.files = MapRemove(@, topic)] ELSE s2
    IN  IF create_new_file
        THEN IF use_existing_timestamp /\ topic \notin DOMAIN s3.base_timestamps
             THEN [res |-> "panic", s |-> s3]
             ELSE LET timestamp == IF use_existing_timestamp
                                   THEN s3.base_timestamps[topic]
                                   ELSE Timestamp(t)
                      s4 == IF use_existing_timestamp THEN s3
                            ELSE [s3 EXCEPT !.base_timestamps = MapInsert(@, topic, timestamp)]
                      file_path == get_intelligent_file_path(topic, timestamp, file_number, t)
                  IN  IF io_fails \/ Exists(s4.disk, file_path)
                      THEN [res |-> "err", s |-> s4]
                      ELSE [res |-> "ok",
                            s |-> [s4 EXCEPT !.disk = CreateFile(@, file_path),
                                             !.files = MapInsert(@, topic,
                                                 NewStream(file_path, t, file_number))]]
        ELSE [res |-> "ok", s |-> [s3 EXCEPT !.files[topic] = Touch(@, t)]]

\* get_or_create_all_topics_file past its check of all_topics_enabled.
\* Returns [res, s, file]: file is TRUE for Ok(Some(&mut file)).
all_topics_stream(s, t, io_fails) ==
    LET has == s.all_topics_file # <<>>
        cur == s.all_topics_file[1]
        timeout == has /\ timed_out(cur, t)
        limit == has /\ ~timeout /\ message_limit_reached(cur)
        should_remove == timeout \/ limit
        create_new_file == should_remove \/ ~has
        file_number == IF limit THEN cur.file_number + 1 ELSE 0
        use_existing_timestamp == limit
        s2 == IF timeout THEN [s EXCEPT !.all_topics_base_timestamp = <<>>] ELSE s
        s3 == IF should_remove THEN [s2 EXCEPT !.all_topics_file = <<>>] ELSE s2
    IN  IF create_new_file
        THEN IF use_existing_timestamp /\ s3.all_topics_base_timestamp = <<>>
             THEN [res |-> "panic", s |-> s3, file |-> FALSE]
             ELSE LET timestamp == IF use_existing_timestamp
                                   THEN s3.all_topics_base_timestamp[1]
                                   ELSE Timestamp(t)
                      s4 == IF use_existing_timestamp THEN s3
                            ELSE [s3 EXCEPT !.all_topics_base_timestamp = <<timestamp>>]
                      file_path == get_all_topics_file_path(timestamp, file_number, t)
                  IN  IF io_fails \/ Exists(s4.disk, file_path)
                      THEN [res |-> "err", s |-> s4, file |-> FALSE]
                      ELSE [res |-> "ok", file |-> TRUE,
                            s |-> [s4 EXCEPT !.disk = CreateFile(@, file_path),
                                             !.all_topics_file =
                                                 <<NewStream(file_path, t, file_number)>>]]
        ELSE [res |-> "ok", file |-> TRUE,
              s |-> [s3 EXCEPT !.all_topics_file[1] = Touch(@, t)]]

\* An aggregate stream that is kept whatever all_topics_enabled says.
get_or_create_all_topics_file_unguarded(s, t, io_fails) ==
    all_topics_stream(s, t, io_fails)

\* Returns [res, s, file]: file is FALSE for Ok(None) (feature disabled).
get_or_create_all_topics_file(s, t, io_fails) ==
    IF ~all_topics_enabled THEN [res |-> "ok", s |-> s, file |-> FALSE]
    ELSE all_topics_stream(s, t, io_fails)

\* write_message leaving the message counts to get_or_create_file and
\* get_or_create_all_topics_file.
update_last_access_only(s, topic, t) ==
    LET s1 == IF topic \in DOMAIN s.files
              THEN [s EXCEPT !.files[topic].last_access = t] ELSE s
    IN  IF s1.all_topics_file # <<>>
        THEN [s1 EXCEPT !.all_topics_file[1].last_access = t] ELSE s1

\* Lines 289-299 of write_message: the counters of both streams after the
\* record was appended.
update_counters(s, topic, t) ==
    LET s1 == IF topic \in DOMAIN s.files
              THEN [s EXCEPT !.files[topic] = Touch(@, t)] ELSE s
    IN  IF s1.all_topics_file # <<>>
        THEN [s1 EXCEPT !.all_topics_file[1] = Touch(@, t)] ELSE s1

\* Returns [res, s]: res is "ok" (Ok(())), "err" (an io::Error of a file
\* creation) or "panic".  rec is the record line, json whether its payload
\* feeds the statistics, io the environment's outcome.
write_message(s, topic, rec, json, t, io) ==
    LET r1 == get_or_create_file(s, topic, t, io = "topic_create_fails") IN
    IF r1.res # "ok" THEN [res |-> r1.res, s |-> r1.s]
    ELSE
    LET s1 == [r1.s EXCEPT !.disk = AppendLine(@, r1.s.files[topic].path, rec)]
        r2 == get_or_create_all_topics_file(s1, t, io = "all_topics_create_fails")
    IN  IF r2.res # "ok" THEN [res |-> r2.res, s |-> r2.s]
        ELSE
        LET s2 == IF r2.file
                  THEN [r2.s EXCEPT !.disk =
                            AppendLine(@, r2.s.all_topics_file[1].path, rec)]
                  ELSE r2.s
            s3 == update_counters(s2, topic, t)
            s4 == add_message(s3, topic, rec, json, t)
        IN  [res |-> "ok", s |-> check_and_calculate_stats(s4, t)]

\* topics_to_remove of cleanup_timeout_files.
topics_to_remove(s, t) == { topic \in DOMAIN s.files : timed_out(s.files[topic], t) }

\* A loop that flushes the removed topics and then clears the whole map of
\* base timestamps.
ForceAndClear_every_base_timestamp(s, removed, t) ==
    IF removed = {} THEN s
    ELSE [s EXCEPT !.base_timestamps = << >>]

RECURSIVE ForceAndClear(_, _, _)
\* The loop of cleanup_timeout_files over topics_to_remove.
ForceAndClear(s, removed, t) ==
    IF removed = {} THEN s
    ELSE LET topic == CHOOSE x \in removed : TRUE
             s1 == force_calculate_stats_for_topic(s, topic, t)
         IN ForceAndClear([s1 EXCEPT !.base_timestamps = MapRemove(@, topic)],
                          removed \ {topic}, t)

cleanup_timeout_files(s, t) ==
    LET removed == topics_to_remove(s, t)
        s1 == [s EXCEPT !.files = [topic \in (DOMAIN @) \ removed |-> @[topic]]]
        s2 == ForceAndClear(s1, removed, t)
    IN  IF s2.all_topics_file # <<>> /\ timed_out(s2.all_topics_file[1], t)
        THEN [s2 EXCEPT !.all_topics_file = <<>>, !.all_topics_base_timestamp = <<>>]
        ELSE s2

\* ------------------------------------------------------------------ Spec
\* The manager's state as the record the operators work on.
Manager ==
    [ files |-> files, base_timestamps |-> base_timestamps,
      all_topics_file |-> all_topics_file,
      all_topics_base_timestamp |-> all_topics_base_timestamp,
      topic_stats |-> topic_stats, disk |-> disk, stats_files |-> stats_files ]

SetManager(s) ==
    /\ files' = s.files
    /\ base_timestamps' = s.base_timestamps
    /\ all_topics_file' = s.all_topics_file
    /\ all_topics_base_timestamp' = s.all_topics_base_timestamp
    /\ topic_stats' = s.topic_stats
    /\ disk' = s.disk
    /\ stats_files' = s.stats_files

config == << timeout_secs, all_topics_enabled, stats_enabled, stats_interval_secs >>

manager == << files, base_timestamps, all_topics_file, all_topics_base_timestamp,
              topic_stats, disk, stats_files >>

history == << calls, idled, capped, last_write >>

\* The modes of the program that use neither manager: the statistics of one
\* topic in detail, the listing of a recording directory, the replay.
other_modes == << engine, discover, replay, codec, layout >>

NoOtherMode ==
    engine = << >> /\ discover = << >> /\ replay = << >> /\ codec = << >> /\ layout = << >>

\* The state of a manager that has done nothing yet.
FreshManager ==
    /\ files = << >>
    /\ base_timestamps = << >>
    /\ all_topics_file = << >>
    /\ all_topics_base_timestamp = << >>
    /\ topic_stats = << >>
    /\ disk = << >>
    /\ stats_files = [topic \in Topics |-> << >>]
    /\ calls = << >>
    /\ idled = {}
    /\ capped = {}
    /\ last_write = [topic \in Topics |-> << >>]
    /\ panicked = FALSE

\* TopicFileManager::new(base_dir, timeout_secs, stats_enabled,
\* stats_interval_secs, all_topics_enabled) on an empty base directory.
Init ==
    /\ now = 0
    /\ timeout_secs \in 1..MaxTimeoutSecs
    /\ all_topics_enabled \in BOOLEAN
    /\ stats_enabled \in BOOLEAN
    /\ stats_interval_secs \in StatsIntervals
    /\ FreshManager
    /\ irecord = << >>
    /\ NoOtherMode

\* The file creations that have failed so far.
IoFailures ==
    Cardinality({ i \in 1..Len(calls) :
                    calls[i].res \in { "topic_file_err", "all_topics_file_err" } })

\* Time passes.
Tick ==
    /\ ~panicked
    /\ now < MaxTime
    /\ now' = now + 1
    /\ UNCHANGED << config, manager, history, panicked, irecord, other_modes >>

\* How a write_message call ended: "ok", "panic", or the file whose creation
\* failed.
CallResult(r1, r) ==
    IF r.res = "ok" \/ r.res = "panic" THEN r.res
    ELSE IF r1.res = "err" THEN "topic_file_err"
    ELSE "all_topics_file_err"

\* write_message(topic, json_message) and what the history keeps of it.
Write(topic, json, io) ==
    /\ ~panicked
    /\ io # "ok" => IoFailures < MaxIoFailures
    /\ LET rec == Len(calls) + 1
           r1 == get_or_create_file(Manager, topic, now, io = "topic_create_fails")
           r == write_message(Manager, topic, rec, json, now, io)
           live == topic \in DOMAIN files
       IN  /\ SetManager(r.s)
           /\ panicked' = (r.res = "panic")
           /\ calls' = Append(calls, [topic |-> topic, res |-> CallResult(r1, r)])
           /\ idled' = IF live /\ timed_out(files[topic], now)
                       THEN idled \cup {topic} ELSE idled
           /\ capped' = IF live /\ ~timed_out(files[topic], now)
                           /\ message_limit_reached(files[topic])
                        THEN capped \cup {topic} ELSE capped
           /\ last_write' = IF r1.res = "ok"
                            THEN [last_write EXCEPT ![topic] =
                                    << [time |-> now, path |-> r1.s.files[topic].path] >>]
                            ELSE last_write
    /\ UNCHANGED << now, config, irecord, other_modes >>

\* A caller runs write_message(topic, json_message).
WriteMessage(topic, json, io) ==
    /\ Len(calls) < MaxWrites
    /\ Write(topic, json, io)

\* A caller runs cleanup_timeout_files().
CleanupTimeoutFiles ==
    /\ ~panicked
    /\ SetManager(cleanup_timeout_files(Manager, now))
    /\ idled' = idled \cup topics_to_remove(Manager, now)
    /\ UNCHANGED << now, config, calls, capped, last_write, panicked, irecord,
                    other_modes >>

Next ==
    \/ Tick
    \/ \E topic \in Topics, json \in PayloadIsJson, io \in IoOutcomes :
          WriteMessage(topic, json, io)
    \/ CleanupTimeoutFiles

Spec == Init /\ [][Next]_vars

\* ----------------------------------------------------------- SpecSession
\* The manager under a longer run of writes, long enough for two cap
\* rotations of one stream, with statistics off.
InitSession ==
    /\ now = 0
    /\ timeout_secs = 1
    /\ all_topics_enabled \in BOOLEAN
    /\ stats_enabled = FALSE
    /\ stats_interval_secs \in StatsIntervals
    /\ FreshManager
    /\ irecord = << >>
    /\ NoOtherMode

\* Time passes, between two calls.
SessionTick ==
    /\ Len(calls) < MaxSessionWrites
    /\ Tick

\* A caller runs write_message(topic, json_message); the environment fails
\* no file creation but that of a name taken.
SessionWrite(topic) ==
    /\ Len(calls) < MaxSessionWrites
    /\ Write(topic, TRUE, "ok")

NextSession ==
    \/ SessionTick
    \/ \E topic \in Topics : SessionWrite(topic)

SpecSession == InitSession /\ [][NextSession]_vars

\* ----------------------------------------------------------- SpecIRecord
\* Mode::IntelligentRecord of the binary.  main.rs has its own
\* TopicFileManager: a stream is [path, last_access], there is no message
\* count, aggregate or statistics.  irecord is the record
\*   pc            "init", "running", "panicked" or "stopped"
\*   subscribed    the ConnAck was handled
\*   files         TopicFileManager.files of main.rs
\*   cleanup_timer the instant of the next tick of cleanup_timer
\*   disk          the recording files, in creation order
\*   delivered     the publishes handled so far
\* and timeout_secs is irecord.sec.

\* get_intelligent_file_path of main.rs: the timestamp is taken at creation.
main_get_intelligent_file_path(topic, t) ==
    [ dir |-> topic, date |-> DateStr(t), name |-> topic_to_path(topic),
      ts |-> Timestamp(t), num |-> 0 ]

\* TopicFileManager::get_or_create_file of main.rs, on [files, disk].
\* Returns [res, s].
main_get_or_create_file(s, topic, t, io_fails) ==
    LET s1 == IF topic \in DOMAIN s.files
                 /\ as_secs(t - s.files[topic].last_access) > timeout_secs
              THEN [s EXCEPT !.files = MapRemove(@, topic)] ELSE s
    IN  IF topic \notin DOMAIN s1.files
        THEN LET file_path == main_get_intelligent_file_path(topic, t) IN
             IF io_fails \/ Exists(s1.disk, file_path)
             THEN [res |-> "err", s |-> s1]
             ELSE [res |-> "ok",
                   s |-> [s1 EXCEPT !.disk = CreateFile(@, file_path),
                                    !.files = MapInsert(@, topic,
                                        [path |-> file_path, last_access |-> t])]]
        ELSE [res |-> "ok", s |-> [s1 EXCEPT !.files[topic].last_access = t]]

\* TopicFileManager::cleanup_timeout_files of main.rs.
main_cleanup_timeout_files(s, t) ==
    [s EXCEPT !.files =
        [topic \in { x \in DOMAIN @ : as_secs(t - @[x].last_access) <= timeout_secs }
            |-> @[topic]]]

\* cleanup_interval, in seconds: irecord.sec / 2 in u64.
cleanup_interval == timeout_secs \div 2

InitIRecord ==
    /\ now = 0
    /\ timeout_secs \in 0..MaxIRecordSecs
    /\ all_topics_enabled = FALSE
    /\ stats_enabled = FALSE
    /\ stats_interval_secs = 1
    /\ FreshManager
    /\ irecord = [ pc |-> "init", subscribed |-> FALSE, files |-> << >>,
                   cleanup_timer |-> 0, disk |-> << >>, delivered |-> 0 ]
    /\ NoOtherMode

library == << config, manager, history, panicked >>

\* TopicFileManager::new and tokio::time::interval(cleanup_interval), which
\* panics on a zero period; the first tick of an interval is immediate.
IRecordStart ==
    /\ irecord.pc = "init"
    /\ irecord' = IF cleanup_interval = 0
                  THEN [irecord EXCEPT !.pc = "panicked"]
                  ELSE [irecord EXCEPT !.pc = "running", !.cleanup_timer = now]
    /\ UNCHANGED << now, library, other_modes >>

\* eventloop.poll() yields Incoming::ConnAck: the topics are subscribed.
IRecordConnAck ==
    /\ irecord.pc = "running"
    /\ ~irecord.subscribed
    /\ irecord' = [irecord EXCEPT !.subscribed = TRUE]
    /\ UNCHANGED << now, library, other_modes >>

\* eventloop.poll() yields Incoming::Publish for topic: the record is written
\* to the topic's file, or the failure to get the file is logged.
IRecordPublish(topic, io_fails) ==
    /\ irecord.pc = "running"
    /\ irecord.subscribed
    /\ irecord.delivered < MaxWrites
    /\ LET rec == irecord.delivered + 1
           r == main_get_or_create_file(irecord, topic, now, io_fails)
       IN  irecord' =
             IF r.res = "ok"
             THEN [r.s EXCEPT !.disk = AppendLine(@, r.s.files[topic].path, rec),
                              !.delivered = rec]
             ELSE [r.s EXCEPT !.delivered = rec]
    /\ UNCHANGED << now, library, other_modes >>

\* cleanup_timer.tick() completes: the cleanup pass runs.
IRecordCleanup ==
    /\ irecord.pc = "running"
    /\ now >= irecord.cleanup_timer
    /\ irecord' = [main_cleanup_timeout_files(irecord, now) EXCEPT
                      !.cleanup_timer = @ + cleanup_interval * TicksPerSec]
    /\ UNCHANGED << now, library, other_modes >>

\* eventloop.poll() yields Err(ConnectionError::Network): the loop breaks.
IRecordNetworkError ==
    /\ irecord.pc = "running"
    /\ irecord' = [irecord EXCEPT !.pc = "stopped"]
    /\ UNCHANGED << now, library, other_modes >>

\* Time passes; a tick of cleanup_timer that is due is handled first.
IRecordTick ==
    /\ irecord.pc = "running"
    /\ now < MaxIRecordTime
    /\ now < irecord.cleanup_timer
    /\ now' = now + 1
    /\ UNCHANGED << library, irecord, other_modes >>

NextIRecord ==
    \/ IRecordStart
    \/ IRecordConnAck
    \/ \E topic \in Topics, io_fails \in BOOLEAN : IRecordPublish(topic, io_fails)
    \/ IRecordCleanup
    \/ IRecordNetworkError
    \/ IRecordTick

SpecIRecord == InitIRecord /\ [][NextIRecord]_vars

\* ------------------------------------------------------------- SpecStats
\* One TopicStats in detail: its data (key-path -> JsonValueType) and the
\* lines of its statistics file.  engine is the record
\*   data        TopicStats.data: key-path -> [kind, values]
\*   stats_file  the lines written, each a sequence of [key, stat]
\*   messages    history: the number of add_message calls made
\*   extracted   history: the leaves the last add_message call extracted
\*   first_kind  history: key-path -> kind of the first value ever seen at it
\*   flushed     history: the data the last line written summarizes
\* A string (key, key-path, string value) is a sequence of characters.  An f64
\* is the exact rational [num, den] it approximates.

\* serde_json::Value.  kids are the members of an object, in key order
\* (serde_json's Map is a BTreeMap), or the elements of an array.
ValueNull == [t |-> "Null", n |-> 0, s |-> << >>, b |-> FALSE, kids |-> << >>]

ValueNumber(x) == [ValueNull EXCEPT !.t = "Number", !.n = x]

ValueString(x) == [ValueNull EXCEPT !.t = "String", !.s = x]

ValueBool(x) == [ValueNull EXCEPT !.t = "Bool", !.b = x]

ValueObject(members) == [ValueNull EXCEPT !.t = "Object", !.kids = members]

ValueArray(items) ==
    [ValueNull EXCEPT !.t = "Array",
        !.kids = [i \in 1..Len(items) |-> [key |-> << >>, val |-> items[i]]]]

\* One member of an object.
Member(key, val) == [key |-> key, val |-> val]

\* format!("{}", index) for an array index.
IndexStr(index) == << ToString(index) >>

RECURSIVE extract_values(_, _)
RECURSIVE ExtractKids(_, _, _)
\* The loops of extract_values over the members of an object or the elements
\* of an array, from the i-th on.
ExtractKids(prefix, value, i) ==
    IF i > Len(value.kids) THEN << >>
    ELSE LET kid == value.kids[i]
             new_prefix ==
                 IF value.t = "Object"
                 THEN IF prefix = << >> THEN kid.key
                      ELSE prefix \o << "." >> \o kid.key
                 ELSE prefix \o << "[" >> \o IndexStr(i - 1) \o << "]" >>
         IN  extract_values(new_prefix, kid.val) \o ExtractKids(prefix, value, i + 1)

\* The calls of add_value_to_stats that extract_values makes, in order, as
\* [key_path, value].
extract_values(prefix, value) ==
    IF value.t \in { "Object", "Array" } THEN ExtractKids(prefix, value, 1)
    ELSE IF prefix # << >> THEN << [key_path |-> prefix, value |-> value] >>
    ELSE << >>

\* The JsonValueType a first value creates (or_insert_with).
NewJsonValueType(value) ==
    [ kind |-> CASE value.t = "Number" -> "Number"
                 [] value.t = "String" -> "String"
                 [] value.t = "Bool" -> "Boolean"
                 [] OTHER -> "Other",
      values |-> << >> ]

\* An accumulator that takes whatever value arrives.
add_value_of_any_type(acc, value) == [acc EXCEPT !.values = Append(@, value)]

\* JsonValueType::add_value
add_value(acc, value) ==
    IF \/ acc.kind = "Number" /\ value.t = "Number"
       \/ acc.kind = "String" /\ value.t = "String"
       \/ acc.kind = "Boolean" /\ value.t = "Bool"
    THEN [acc EXCEPT !.values = Append(@, value)]
    ELSE acc

add_value_to_stats(data, key_path, value) ==
    LET d == IF key_path \in DOMAIN data THEN data
             ELSE MapInsert(data, key_path, NewJsonValueType(value))
    IN  [d EXCEPT ![key_path] = add_value(@, value)]

RECURSIVE AddValues(_, _)
\* add_value_to_stats for each extracted leaf, in order.
AddValues(data, leaves) ==
    IF leaves = << >> THEN data
    ELSE AddValues(add_value_to_stats(data, Head(leaves).key_path, Head(leaves).value),
                   Tail(leaves))

\* What add_message extracts from json_str: nothing unless the line parses,
\* has a string msg_b64 that decodes to UTF-8 text, and that text is JSON.
ExtractedFrom(json_str) ==
    IF json_str.form = "json" THEN extract_values(<< >>, json_str.payload) ELSE << >>

\* TopicStats::add_message, on data.
TopicStats_add_message_to_data(data, json_str) ==
    AddValues(data, ExtractedFrom(json_str))

\* The value of a ratio [num, den] of integers is num / den.
Ratio(num, den) == [num |-> num, den |-> den]

RECURSIVE SumOver(_, _)
\* values.iter().map(f).sum() for f given as a sequence of terms.
SumOver(terms, i) == IF i > Len(terms) THEN 0 ELSE terms[i] + SumOver(terms, i + 1)

\* The variance with Bessel's correction, n - 1 for n.
sample_variance(values) ==
    LET n == Len(values)
        sum == SumOver([i \in 1..n |-> values[i].n], 1)
        squares == SumOver([i \in 1..n |-> (values[i].n * n - sum) * (values[i].n * n - sum)], 1)
    IN  IF n <= 1 THEN Ratio(0, 1) ELSE Ratio(squares, n * n * (n - 1))

\* calculate_stat for Number: mean = sum / n, then the mean of the squared
\* deviations (x - mean)^2 = (x * n - sum)^2 / n^2.
variance(values) ==
    LET n == Len(values)
        sum == SumOver([i \in 1..n |-> values[i].n], 1)
        squares == SumOver([i \in 1..n |-> (values[i].n * n - sum) * (values[i].n * n - sum)], 1)
    IN  IF n = 0 THEN Ratio(0, 1) ELSE Ratio(squares, n * n * n)

\* The number of values, equal ones counted again.
value_count(values) == Ratio(Len(values), 1)

\* calculate_stat for String and Boolean: the size of the HashSet of values.
unique_count(values) ==
    Ratio(Cardinality({ values[i] : i \in 1..Len(values) }), 1)

\* JsonValueType::calculate_stat
calculate_stat(acc) ==
    CASE acc.kind = "Number" -> variance(acc.values)
      [] acc.kind \in { "String", "Boolean" } -> unique_count(acc.values)
      [] OTHER -> Ratio(0, 1)

\* format!("{:.3}", stat) for stat >= 0: the decimal with three fractional
\* digits nearest to stat, a tie going to the even last digit; given as the
\* number of thousandths.
Fixed3(stat) ==
    LET q == (stat.num * 1000) \div stat.den
        r == (stat.num * 1000) % stat.den
    IN  IF 2 * r > stat.den \/ (2 * r = stat.den /\ q % 2 = 1) THEN q + 1 ELSE q

\* The byte of a character of a key-path.
CharCode(c) ==
    CASE c = "." -> 46 [] c = "0" -> 48 [] c = "1" -> 49 [] c = "2" -> 50
      [] c = "[" -> 91 [] c = "]" -> 93 [] c = "a" -> 97 [] c = "b" -> 98

RECURSIVE StrLess(_, _)
\* Ord for str: x < y, byte by byte.
StrLess(x, y) ==
    IF y = << >> THEN FALSE
    ELSE IF x = << >> THEN TRUE
    ELSE IF Head(x) # Head(y) THEN CharCode(Head(x)) < CharCode(Head(y))
    ELSE StrLess(Tail(x), Tail(y))

RECURSIVE sorted_keys(_)
\* sorted_keys of calculate_and_write_stats: the keys, sorted.
sorted_keys(keys) ==
    IF keys = {} THEN << >>
    ELSE LET least == CHOOSE x \in keys : \A y \in keys : x = y \/ StrLess(x, y)
         IN  << least >> \o sorted_keys(keys \ { least })

\* stats_parts of calculate_and_write_stats after the time range (which
\* StatsLine has): format!("{}:{:.3}", key, stat) for each key.
stats_parts(data) ==
    LET keys == sorted_keys(DOMAIN data)
    IN  [i \in 1..Len(keys) |->
            [key |-> keys[i], stat |-> Fixed3(calculate_stat(data[keys[i]]))]]

\* A flush that keeps every accumulator and empties its samples.
TopicStats_reset_and_write_stats(e) ==
    IF DOMAIN e.data = {} THEN e
    ELSE [e EXCEPT !.stats_file = Append(@, stats_parts(e.data)),
                   !.data = [k \in DOMAIN e.data |-> [e.data[k] EXCEPT !.values = << >>]]]

\* TopicStats::calculate_and_write_stats, on [data, stats_file].
TopicStats_calculate_and_write_stats(e) ==
    IF DOMAIN e.data = {} THEN e
    ELSE [e EXCEPT !.stats_file = Append(@, stats_parts(e.data)),
                   !.data = << >>]

\* The leaves of the payloads explored.
Leaves ==
    { ValueNumber(1), ValueNumber(3), ValueNumber(5),
      ValueString(<< "x" >>), ValueString(<< "y" >>), ValueBool(TRUE), ValueNull }

\* The JSON payloads explored: {"a": leaf}, {"a": 1, "b": "x"}, {"a": {"b": 1}},
\* {"a": {"b": "x"}, "a.b": 1}, {"a": [1, "x"]} and the bare leaf 1.
Payloads ==
    { ValueObject(<< Member(<< "a" >>, leaf) >>) : leaf \in Leaves }
    \cup { ValueObject(<< Member(<< "a" >>, ValueNumber(1)),
                         Member(<< "b" >>, ValueString(<< "x" >>)) >>),
           ValueObject(<< Member(<< "a" >>,
                           ValueObject(<< Member(<< "b" >>, ValueNumber(1)) >>)) >>),
           ValueObject(<< Member(<< "a" >>,
                           ValueObject(<< Member(<< "b" >>, ValueString(<< "x" >>)) >>)),
                         Member(<< "a", ".", "b" >>, ValueNumber(1)) >>),
           ValueObject(<< Member(<< "a" >>,
                           ValueArray(<< ValueNumber(1), ValueString(<< "x" >>) >>)) >>),
           ValueNumber(1) }

\* The record lines explored: one per JSON payload, and lines that add_message
\* gives up on.
JsonStrs ==
    { [form |-> "json", payload |-> p] : p \in Payloads }
    \cup { [form |-> f, payload |-> ValueNull] :
             f \in { "malformed", "no_msg_b64", "bad_base64", "bad_utf8", "not_json" } }

\* TopicStats::new
InitStats ==
    /\ now = 0
    /\ timeout_secs = 1
    /\ all_topics_enabled = FALSE
    /\ stats_enabled = TRUE
    /\ stats_interval_secs = 1
    /\ FreshManager
    /\ irecord = << >>
    /\ discover = << >>
    /\ replay = << >>
    /\ codec = << >>
    /\ layout = << >>
    /\ engine = [ data |-> << >>, stats_file |-> << >>, messages |-> 0,
                  extracted |-> << >>, first_kind |-> << >>, flushed |-> << >> ]

not_engine == << now, config, manager, history, panicked, irecord, discover, replay, codec, layout >>

\* A caller runs add_message(json_str).
StatsAddMessage(json_str) ==
    /\ engine.messages < MaxMessages
    /\ LET data == TopicStats_add_message_to_data(engine.data, json_str) IN
       engine' = [engine EXCEPT
           !.data = data,
           !.messages = @ + 1,
           !.extracted = ExtractedFrom(json_str),
           !.first_kind = [k \in DOMAIN @ \cup DOMAIN data |->
                              IF k \in DOMAIN @ THEN @[k] ELSE data[k].kind]]
    /\ UNCHANGED not_engine

\* A caller runs calculate_and_write_stats(): the interval has passed, or the
\* flush is forced.
StatsFlush ==
    /\ engine' = [TopicStats_calculate_and_write_stats(engine) EXCEPT
                      !.extracted = << >>,
                      !.flushed = IF DOMAIN engine.data = {} THEN @ ELSE engine.data]
    /\ UNCHANGED not_engine

NextStats ==
    \/ \E json_str \in JsonStrs : StatsAddMessage(json_str)
    \/ StatsFlush

SpecStats == InitStats /\ [][NextStats]_vars

\* ---------------------------------------------------------- SpecDiscover
\* A recording directory and get_files_in_range (src/src/replay.rs) on it.
\* The directory holds the files of disk (made by the Recording Stream
\* Manager) and discover.others (made by record mode, or by anyone).
\*
\* A file is [dirs, stem, ext, at]: the directories under base_dir, the file
\* stem, the extension, and, as history, << the instant its name stands for >>
\* under the grammar that made it (<< >> for a file of no grammar).  A name is
\* a sequence of tokens [c, v]: a character c, or a fixed-width numeric field
\* of strftime (c the format, v the number shown).  Both %H%M and %H%M%S hold
\* the wall second: the instants explored are whole minutes.

\* A character.
Tok(c) == [c |-> c, v |-> 0]

\* The digits a format specifier shows for v.
Field(format, v) == [c |-> format, v |-> v]

Dash == Tok("-")

\* A string as tokens.
Chars(s) == [i \in 1..Len(s) |-> Tok(s[i])]

\* char::is_ascii_digit for all characters of a token.
is_ascii_digit(tok) ==
    tok.c \in { "%Y%m%d", "%H%M%S", "%H%M", "%Y", "%m", "%d", "{}" }

RECURSIVE split(_, _)
\* str::split(sep).collect()
split(s, sep) ==
    IF s = << >> THEN << << >> >>
    ELSE LET rest == split(Tail(s), sep)
         IN  IF Head(s) = sep THEN << << >> >> \o rest
             ELSE << << Head(s) >> \o Head(rest) >> \o Tail(rest)

RECURSIVE join(_, _)
\* [&str]::join(sep)
join(parts, sep) ==
    IF parts = << >> THEN << >>
    ELSE IF Len(parts) = 1 THEN Head(parts)
    ELSE Head(parts) \o << sep >> \o join(Tail(parts), sep)

\* format("%Y-%m-%d") of a wall day.
format_date(day) ==
    << Field("%Y", 0), Dash, Field("%m", 0), Dash, Field("%d", day) >>

\* format("%Y%m%d-%H%M%S") of a wall second.
format_timestamp(secs) ==
    << Field("%Y%m%d", secs \div SecsPerDay), Dash, Field("%H%M%S", secs % SecsPerDay) >>

\* format("%Y-%m-%d-%H%M") of a wall second.
format_time_str(secs) ==
    format_date(secs \div SecsPerDay) \o << Dash, Field("%H%M", secs % SecsPerDay) >>

\* NaiveDateTime::parse_from_str(s, "%Y%m%d-%H%M%S"): << the instant >>, or
\* << >> for Err.
parse_timestamp(s) ==
    IF Len(s) = 3 /\ s[1].c = "%Y%m%d" /\ s[2] = Dash /\ s[3].c = "%H%M%S"
    THEN << s[1].v * SecsPerDay + s[3].v >> ELSE << >>

\* NaiveDateTime::parse_from_str(s, "%Y-%m-%d-%H%M")
parse_time_str(s) ==
    IF /\ Len(s) = 7
       /\ s[1].c = "%Y" /\ s[3].c = "%m" /\ s[5].c = "%d" /\ s[7].c = "%H%M"
       /\ s[2] = Dash /\ s[4] = Dash /\ s[6] = Dash
    THEN << s[5].v * SecsPerDay + s[7].v >> ELSE << >>

\* The path get_current_file_path gives at wall second secs, as a file.
get_current_file_path(secs) ==
    [ dirs |-> << format_date(secs \div SecsPerDay) >>,
      stem |-> << Tok("mqtt-recorder-") >> \o format_time_str(secs),
      ext |-> << Tok("json") >>,
      at |-> << secs >> ]

\* The components base_dir.join(topic) adds: the topic split at '/'.
TopicDirs(dir) ==
    LET parts == split(dir, "/")
    IN  SelectSeq([i \in 1..Len(parts) |-> Chars(parts[i])], LAMBDA p : p # << >>)

\* The PathBuf that get_intelligent_file_path and get_all_topics_file_path
\* build from [dir, date, name, ts, num], as a file:
\* <dir>/<date>/mqtt-recorder-<name>-<ts>[-<num>].json
PathBufOf(path) ==
    [ dirs |-> TopicDirs(path.dir) \o << format_date(path.date) >>,
      stem |-> << Tok("mqtt-recorder-") >> \o Chars(path.name) \o << Dash >>
               \o format_timestamp(path.ts)
               \o (IF path.num = 0 THEN << >> ELSE << Dash, Field("{}", path.num) >>),
      ext |-> << Tok("json") >>,
      at |-> << path.ts >> ]

\* timestamp_part for a last part that is a file number:
\* parts[parts.len() - 4..parts.len() - 1].join("-")
timestamp_part_numbered(parts) ==
    join(SubSeq(parts, Len(parts) - 3, Len(parts) - 1), Dash)

\* The instant the closure of files.retain decodes from a file stem, as
\* << file_dt >>, or << >> where the closure returns false.
file_dt(stem) ==
    IF stem = << >> \/ Head(stem) # Tok("mqtt-recorder-") THEN << >>
    ELSE LET time_part == Tail(stem)
             parts == split(time_part, Dash)
             last_part == parts[Len(parts)]
         IN  IF parse_time_str(time_part) # << >> THEN parse_time_str(time_part)
             ELSE IF Len(parts) >= 3
             THEN IF (\A i \in 1..Len(last_part) : is_ascii_digit(last_part[i]))
                     /\ Len(parts) >= 4
                  THEN parse_timestamp(timestamp_part_numbered(parts))
                  ELSE parse_timestamp(join(SubSeq(parts, Len(parts) - 1, Len(parts)), Dash))
             ELSE << >>

\* NaiveDateTime::parse_from_str(s, "%Y-%m-%d %H:%M").ok() of a bound given
\* as << >> (None) or << [valid, secs] >>.
parse_bound(bound) ==
    IF bound # << >> /\ bound[1].valid THEN << bound[1].secs >> ELSE << >>

\* The closure of files.retain.
keep(file, start_dt, end_dt) ==
    LET dt == file_dt(file.stem) IN
    /\ dt # << >>
    /\ start_dt # << >> => dt[1] >= start_dt[1]
    /\ end_dt # << >> => dt[1] <= end_dt[1]

\* The byte a token starts with, for the order of paths.
TokRank(tok) ==
    CASE tok.c = "#" -> 35
      [] tok.c = "-" -> 45
      [] tok.c = "." -> 46
      [] is_ascii_digit(tok) -> 48
      [] tok.c = "a" -> 97
      [] tok.c = "b" -> 98
      [] tok.c = "c" -> 99
      [] tok.c = "json" -> 106
      [] tok.c = "mqtt-recorder-" -> 109
      [] tok.c = "n" -> 110
      [] OTHER -> 116

\* Ord of tokens: by byte, numeric fields of one width by value.
TokLess(x, y) ==
    \/ TokRank(x) < TokRank(y)
    \/ TokRank(x) = TokRank(y) /\ x.v < y.v

RECURSIVE ComponentLess(_, _)
\* Ord of one path component: lexicographic in its tokens.
ComponentLess(x, y) ==
    IF y = << >> THEN FALSE
    ELSE IF x = << >> THEN TRUE
    ELSE IF TokLess(Head(x), Head(y)) THEN TRUE
    ELSE IF TokLess(Head(y), Head(x)) THEN FALSE
    ELSE ComponentLess(Tail(x), Tail(y))

RECURSIVE ComponentsLess(_, _)
\* Lexicographic order of sequences of components.
ComponentsLess(x, y) ==
    IF y = << >> THEN FALSE
    ELSE IF x = << >> THEN TRUE
    ELSE IF ComponentLess(Head(x), Head(y)) THEN TRUE
    ELSE IF ComponentLess(Head(y), Head(x)) THEN FALSE
    ELSE ComponentsLess(Tail(x), Tail(y))

\* A file name: <stem>.<ext>
FileName(file) == file.stem \o << Tok(".") >> \o file.ext

\* Ord of PathBuf: component by component.
PathLess(f, g) ==
    ComponentsLess(f.dirs \o << FileName(f) >>, g.dirs \o << FileName(g) >>)

RECURSIVE sort(_)
\* Vec::sort of a set of paths.
sort(fs) ==
    IF fs = {} THEN << >>
    ELSE LET least == CHOOSE f \in fs : \A g \in fs \ {f} : PathLess(f, g)
         IN  << least >> \o sort(fs \ {least})

\* get_files_in_range on the files all_files found under directory: Ok(files).
get_files_in_range(all_files, start_time, end_time) ==
    LET json_files == { f \in all_files : f.ext = << Tok("json") >> }
        start_dt == parse_bound(start_time)
        end_dt == parse_bound(end_time)
    IN  sort(IF start_time # << >> \/ end_time # << >>
             THEN { f \in json_files : keep(f, start_dt, end_dt) }
             ELSE json_files)

\* The instant the closure of files.retain in main.rs decodes from a file
\* stem: the pattern of record mode only.
main_file_dt(stem) ==
    IF stem = << >> \/ Head(stem) # Tok("mqtt-recorder-") THEN << >>
    ELSE parse_time_str(Tail(stem))

\* The closure of files.retain in main.rs.
main_keep(file, start_dt, end_dt) ==
    LET dt == main_file_dt(file.stem) IN
    /\ dt # << >>
    /\ start_dt # << >> => dt[1] >= start_dt[1]
    /\ end_dt # << >> => dt[1] <= end_dt[1]

\* get_files_in_range of main.rs, the one the replay task calls.
main_get_files_in_range(all_files, start_time, end_time) ==
    LET json_files == { f \in all_files : f.ext = << Tok("json") >> }
        start_dt == parse_bound(start_time)
        end_dt == parse_bound(end_time)
    IN  sort(IF start_time # << >> \/ end_time # << >>
             THEN { f \in json_files : main_keep(f, start_dt, end_dt) }
             ELSE json_files)

\* Files nobody's grammar made: a JSON file without the prefix, a JSON file
\* with the prefix and no timestamp, and a recording that is not JSON.
ForeignFiles ==
    { [ dirs |-> << >>, stem |-> << Tok("n") >>, ext |-> << Tok("json") >>, at |-> << >> ],
      [ dirs |-> << >>, stem |-> << Tok("mqtt-recorder-"), Tok("n") >>,
        ext |-> << Tok("json") >>, at |-> << >> ],
      [ dirs |-> << Chars(<<"c">>) >>,
        stem |-> << Tok("mqtt-recorder-"), Tok("c"), Dash >> \o format_timestamp(0),
        ext |-> << Tok("txt") >>, at |-> << >> ] }

\* The files the Recording Stream Manager has made, in creation order.
ManagerFiles == [i \in 1..Len(disk) |-> PathBufOf(disk[i].path)]

\* Everything under the directory.
Directory == { ManagerFiles[i] : i \in 1..Len(disk) } \cup discover.others

\* The bounds a caller passes: None, a string that is no instant, or an
\* instant (the middle of the time explored, so that files lie before it, at
\* it and after it).
TimeBounds ==
    { << >>, << [valid |-> FALSE, secs |-> 0] >>,
      << [valid |-> TRUE, secs |-> WallSecs(MaxTime) \div 2] >> }

InitDiscover ==
    /\ now = 0
    /\ timeout_secs = 1
    /\ all_topics_enabled = TRUE
    /\ stats_enabled = FALSE
    /\ stats_interval_secs \in StatsIntervals
    /\ FreshManager
    /\ irecord = << >>
    /\ engine = << >>
    /\ replay = << >>
    /\ codec = << >>
    /\ layout = << >>
    /\ discover = [ others |-> {}, listed |-> FALSE, files |-> << >>,
                    start_time |-> << >>, end_time |-> << >> ]

not_discover == << now, config, manager, history, panicked, irecord, engine, replay, codec, layout >>

\* Time passes while the directory fills.
DiscoverTick == discover.listed = FALSE /\ Tick

\* The recorder writes a message.
DiscoverWriteMessage(topic) ==
    discover.listed = FALSE /\ WriteMessage(topic, TRUE, "ok")

\* Record mode opens the file of the current minute.
DiscoverRecordFile ==
    /\ discover.listed = FALSE
    /\ Cardinality(discover.others) < MaxOtherFiles
    /\ get_current_file_path(WallSecs(now)) \notin discover.others
    /\ discover' = [discover EXCEPT !.others = @ \cup { get_current_file_path(WallSecs(now)) }]
    /\ UNCHANGED not_discover

\* Somebody else puts a file under the directory.
DiscoverForeignFile(file) ==
    /\ discover.listed = FALSE
    /\ Cardinality(discover.others) < MaxOtherFiles
    /\ file \notin discover.others
    /\ discover' = [discover EXCEPT !.others = @ \cup { file }]
    /\ UNCHANGED not_discover

\* get_files_in_range(directory, start_time, end_time)
GetFilesInRange(start_time, end_time) ==
    /\ discover.listed = FALSE
    /\ discover' = [discover EXCEPT
                      !.listed = TRUE,
                      !.files = get_files_in_range(Directory, start_time, end_time),
                      !.start_time = start_time,
                      !.end_time = end_time]
    /\ UNCHANGED not_discover

NextDiscover ==
    \/ DiscoverTick
    \/ \E topic \in Topics : DiscoverWriteMessage(topic)
    \/ DiscoverRecordFile
    \/ \E file \in ForeignFiles : DiscoverForeignFile(file)
    \/ \E start_time \in TimeBounds, end_time \in TimeBounds :
          GetFilesInRange(start_time, end_time)

SpecDiscover == InitDiscover /\ [][NextDiscover]_vars

RECURSIVE SeqsUpTo(_, _)
\* The sequences over S of length up to n.
SeqsUpTo(S, n) ==
    IF n = 0 THEN { << >> }
    ELSE LET shorter == SeqsUpTo(S, n - 1)
         IN  shorter \cup { Append(q, x) : q \in shorter, x \in S }

\* ------------------------------------------------------------- SpecCodec
\* The payload of a message on its way through a recording: base64::encode
\* where the recorder builds the MqttMessage, base64::decode where the replay
\* builds the Publish.  A payload is a sequence of bytes (0..255), msg_b64 a
\* sequence of characters.

\* The standard alphabet: the character of sextet i is Alphabet[i + 1].
Alphabet ==
    << "A", "B", "C", "D", "E", "F", "G", "H", "I", "J", "K", "L", "M",
       "N", "O", "P", "Q", "R", "S", "T", "U", "V", "W", "X", "Y", "Z",
       "a", "b", "c", "d", "e", "f", "g", "h", "i", "j", "k", "l", "m",
       "n", "o", "p", "q", "r", "s", "t", "u", "v", "w", "x", "y", "z",
       "0", "1", "2", "3", "4", "5", "6", "7", "8", "9", "+", "/" >>

\* The character of a sextet in the URL-safe alphabet.
encode_symbol_url_safe(sextet) ==
    IF sextet = 62 THEN "-" ELSE IF sextet = 63 THEN "_" ELSE Alphabet[sextet + 1]

\* The character of a sextet.
encode_symbol(sextet) == Alphabet[sextet + 1]

\* The sextet of a character, -1 for a character outside the alphabet.
decode_symbol(c) ==
    IF \E i \in 1..64 : Alphabet[i] = c
    THEN (CHOOSE i \in 1..64 : Alphabet[i] = c) - 1
    ELSE -1

RECURSIVE base64_encode(_)
\* base64::encode: three bytes to four characters, the last group padded
\* with '='.
base64_encode(bytes) ==
    IF bytes = << >> THEN << >>
    ELSE IF Len(bytes) = 1
    THEN << encode_symbol(bytes[1] \div 4),
            encode_symbol((bytes[1] % 4) * 16), "=", "=" >>
    ELSE IF Len(bytes) = 2
    THEN << encode_symbol(bytes[1] \div 4),
            encode_symbol((bytes[1] % 4) * 16 + bytes[2] \div 16),
            encode_symbol((bytes[2] % 16) * 4), "=" >>
    ELSE << encode_symbol(bytes[1] \div 4),
            encode_symbol((bytes[1] % 4) * 16 + bytes[2] \div 16),
            encode_symbol((bytes[2] % 16) * 4 + bytes[3] \div 64),
            encode_symbol(bytes[3] % 64) >>
         \o base64_encode(SubSeq(bytes, 4, Len(bytes)))

RECURSIVE decode_sextets(_)
\* The bytes of a sequence of sextets: << bytes >>, or << >> for a lone last
\* sextet or last bits that are not zero.
decode_sextets(s) ==
    IF s = << >> THEN << << >> >>
    ELSE IF Len(s) = 1 THEN << >>
    ELSE IF Len(s) = 2
    THEN IF s[2] % 16 = 0 THEN << << s[1] * 4 + s[2] \div 16 >> >> ELSE << >>
    ELSE IF Len(s) = 3
    THEN IF s[3] % 4 = 0
         THEN << << s[1] * 4 + s[2] \div 16, (s[2] % 16) * 16 + s[3] \div 4 >> >>
         ELSE << >>
    ELSE LET rest == decode_sextets(SubSeq(s, 5, Len(s)))
         IN  IF rest = << >> THEN << >>
             ELSE << << s[1] * 4 + s[2] \div 16,
                        (s[2] % 16) * 16 + s[3] \div 4,
                        (s[3] % 4) * 64 + s[4] >> \o rest[1] >>

\* The number of '=' at the end of msg_b64.
padding_len(msg_b64) ==
    IF msg_b64 # << >> /\ msg_b64[Len(msg_b64)] = "="
    THEN IF Len(msg_b64) > 1 /\ msg_b64[Len(msg_b64) - 1] = "=" THEN 2 ELSE 1
    ELSE 0

\* base64::decode: << the bytes >>, or << >> for Err (a character outside
\* the alphabet, padding that does not fill the last group, a lone last
\* character, last bits that are not zero).
base64_decode(msg_b64) ==
    LET pad == padding_len(msg_b64)
        symbols == SubSeq(msg_b64, 1, Len(msg_b64) - pad)
        sextets == [i \in 1..Len(symbols) |-> decode_symbol(symbols[i])]
    IN  IF \E i \in 1..Len(sextets) : sextets[i] = -1 THEN << >>
        ELSE IF pad > 0 /\ Len(msg_b64) % 4 # 0 THEN << >>
        ELSE decode_sextets(sextets)

\* The bytes explored: 0, 'x', and two that need '+' and '/'.
Bytes == { 0, 120, 251, 255 }

InitCodec ==
    /\ now = 0
    /\ timeout_secs = 1
    /\ all_topics_enabled = FALSE
    /\ stats_enabled = FALSE
    /\ stats_interval_secs \in StatsIntervals
    /\ FreshManager
    /\ irecord = << >>
    /\ engine = << >>
    /\ discover = << >>
    /\ replay = << >>
    /\ layout = << >>
    /\ \E payload \in SeqsUpTo(Bytes, MaxPayloadLen) :
          codec = [ payload |-> payload, stage |-> "received", msg_b64 |-> << >>,
                    published |-> << >> ]

not_codec ==
    << now, config, manager, history, panicked, irecord, engine, discover, replay, layout >>

\* The recorder builds the MqttMessage of a Publish and writes its line.
CodecRecord ==
    /\ codec.stage = "received"
    /\ codec' = [codec EXCEPT !.stage = "recorded",
                              !.msg_b64 = base64_encode(codec.payload)]
    /\ UNCHANGED not_codec

\* The replay reads the line and builds the Publish; an Err of decode panics
\* the task in unwrap.
CodecReplay ==
    /\ codec.stage = "recorded"
    /\ codec' = [codec EXCEPT
                   !.stage = IF base64_decode(codec.msg_b64) = << >>
                             THEN "panicked" ELSE "replayed",
                   !.published = base64_decode(codec.msg_b64)]
    /\ UNCHANGED not_codec

NextCodec ==
    \/ CodecRecord
    \/ CodecReplay

SpecCodec == InitCodec /\ [][NextCodec]_vars

\* ------------------------------------------------------------ SpecReplay
\* Replay mode of the binary (src/src/main.rs, Mode::Replay): a spawned task
\* reads the listed files line by line, sleeps for the recorded gap and sends
\* a Publish for each record to the request channel of the event loop, while
\* main polls the event loop until the task says stop or its sender is gone.
\* MqttMessage.time (f64 seconds) is held in milliseconds, exactly.

\* A line of a recording that is no JSON of a MqttMessage.
MalformedLine ==
    [ json |-> FALSE, time |-> 0, qos |-> 0, retain |-> FALSE, topic |-> << >>,
      msg_b64 |-> << >> ]

\* A line that is a JSON object with the five fields of a MqttMessage.
RecordLine(time, qos, retain, topic, msg_b64) ==
    [ json |-> TRUE, time |-> time, qos |-> qos, retain |-> retain, topic |-> topic,
      msg_b64 |-> msg_b64 ]

\* The lines explored: malformed JSON, a record whose msg_b64 is no base64,
\* a retained record of QoS 1 at 10.0 s, a record at 12.0 s whose qos is
\* outside 0..2, and a record whose qos is outside u8.
Lines ==
    { MalformedLine,
      RecordLine(10000, 0, FALSE, <<"c">>, <<"!">>),
      RecordLine(10000, 1, TRUE, <<"c">>, <<"e", "A", "=", "=">>),
      RecordLine(12000, 3, FALSE, <<"a", "/", "b">>, <<"e", "Q", "=", "=">>),
      RecordLine(12000, 256, FALSE, <<"c">>, <<"e", "A", "=", "=">>) }

\* The values of --speed explored.
Speeds == { 2, 3 }

\* serde_json::from_str::<MqttMessage>(&line): << msg >>, or << >> for Err
\* (qos is a u8).
from_str(line) ==
    IF line.json /\ line.qos \in 0..255 THEN << line >> ELSE << >>

\* A match whose wildcard arm gives the highest QoS.
QoSOf_wildcard_highest(qos) == IF qos \in 0..2 THEN qos ELSE 2

\* match msg.qos: QoS as its number.
QoSOf(qos) == IF qos \in 0..2 THEN qos ELSE 0

\* Publish::new(topic, qos, payload): dup and retain are false.
Publish_new(topic, qos, payload) ==
    [ topic |-> topic, qos |-> qos, retain |-> FALSE, payload |-> payload ]

\* The gap slept at the recorded speed, without the cast to u64.
sleep_millis_unsaturated(time, previous, speed) ==
    (time - previous) \div speed

\* ((msg.time - previous) * 1000.0 / replay.speed) as u64: the cast drops the
\* fraction and takes a negative number to 0.
sleep_millis(time, previous, speed) ==
    IF time - previous <= 0 THEN 0 ELSE (time - previous) \div speed

\* The files a listing returns: files of up to MaxLines lines that open, and
\* a file that does not.
ReplayFiles ==
    { [ opens |-> TRUE, lines |-> lines ] : lines \in SeqsUpTo(Lines, MaxLines) }
    \cup { [ opens |-> FALSE, lines |-> << RecordLine(10000, 1, TRUE, <<"c">>, <<"e", "A", "=", "=">>) >> ] }

InitReplay ==
    /\ now = 0
    /\ timeout_secs = 1
    /\ all_topics_enabled = FALSE
    /\ stats_enabled = FALSE
    /\ stats_interval_secs \in StatsIntervals
    /\ FreshManager
    /\ irecord = << >>
    /\ engine = << >>
    /\ discover = << >>
    /\ codec = << >>
    /\ layout = << >>
    /\ \E contents \in SeqsUpTo(ReplayFiles, MaxReplayFiles),
          loop_replay \in BOOLEAN, speed \in Speeds :
          replay = [ files |-> contents, loop_replay |-> loop_replay, speed |-> speed,
                     task |-> "list", pass |-> 1, file |-> 1, line |-> 1,
                     previous |-> -1000,
                     emitted |-> << >>, stop_sent |-> FALSE,
                     main |-> "check", polled |-> 0 ]

not_replay == << now, config, manager, history, panicked, irecord, engine, discover, codec, layout >>

\* The task has returned or panicked: stop_tx is dropped.
TaskOver == replay.task \in { "ended", "panicked" }

\* Main has left the loop and returns: the runtime goes down, and the task
\* with it.
MainExited == replay.main = "exited"

\* get_files_in_range at the start of a pass; no files: break.
ReplayListFiles ==
    /\ ~MainExited
    /\ replay.task = "list"
    /\ replay' = [replay EXCEPT
                    !.task = IF replay.files = << >> THEN "ended" ELSE "read",
                    !.previous = -1000,
                    !.file = 1, !.line = 1]
    /\ UNCHANGED not_replay

\* A file that fails to open: continue with the next file.
ReplayOpenFails ==
    /\ ~MainExited
    /\ replay.task = "read"
    /\ replay.file <= Len(replay.files)
    /\ ~replay.files[replay.file].opens
    /\ replay' = [replay EXCEPT !.file = @ + 1, !.line = 1]
    /\ UNCHANGED not_replay

\* The end of a file: on to the next file.
ReplayNextFile ==
    /\ ~MainExited
    /\ replay.task = "read"
    /\ replay.file <= Len(replay.files)
    /\ replay.files[replay.file].opens
    /\ replay.line > Len(replay.files[replay.file].lines)
    /\ replay' = [replay EXCEPT !.file = @ + 1, !.line = 1]
    /\ UNCHANGED not_replay

\* One line of a file: parsed, slept for, converted and sent; the send waits
\* while the request channel is full.
ReplayLine ==
    /\ ~MainExited
    /\ replay.task = "read"
    /\ replay.file <= Len(replay.files)
    /\ replay.files[replay.file].opens
    /\ replay.line <= Len(replay.files[replay.file].lines)
    /\ LET line == replay.files[replay.file].lines[replay.line] IN
       (from_str(line) # << >> /\ base64_decode(line.msg_b64) # << >>)
           => Len(replay.emitted) - replay.polled < requests_cap
    /\ LET line == replay.files[replay.file].lines[replay.line]
           msg == from_str(line)
           previous == IF replay.previous < 0 THEN line.time ELSE replay.previous
           payload == base64_decode(line.msg_b64)
       IN  replay' =
             IF msg = << >> THEN [replay EXCEPT !.line = @ + 1]
             ELSE IF payload = << >>
             THEN [replay EXCEPT !.task = "panicked", !.previous = line.time]
             ELSE [replay EXCEPT
                     !.line = @ + 1,
                     !.previous = line.time,
                     !.emitted = Append(@,
                         [ pass |-> replay.pass, file |-> replay.file, line |-> replay.line,
                           slept |-> sleep_millis(line.time, previous, replay.speed),
                           publish |-> Publish_new(line.topic, QoSOf(line.qos), payload[1]) ])]
    /\ UNCHANGED not_replay

\* The end of a pass: stop, or the next pass.
ReplayEndPass ==
    /\ ~MainExited
    /\ replay.task = "read"
    /\ replay.file > Len(replay.files)
    /\ replay.loop_replay => replay.pass < MaxPasses
    /\ replay' = IF ~replay.loop_replay
                 THEN [replay EXCEPT !.stop_sent = TRUE, !.task = "ended"]
                 ELSE [replay EXCEPT !.task = "list", !.pass = @ + 1]
    /\ UNCHANGED not_replay

\* try_recv of a receiver whose sender is dropped with the task: it never
\* reports the disconnection.
try_recv_of_live_sender ==
    IF replay.stop_sent THEN "Ok" ELSE "Empty"

\* stop_rx.try_recv()
try_recv ==
    IF replay.stop_sent THEN "Ok"
    ELSE IF TaskOver THEN "Disconnected"
    ELSE "Empty"

\* The condition of main's loop: Empty goes on to poll, anything else leaves
\* the loop.
MainTryRecv ==
    /\ replay.main = "check"
    /\ replay' = [replay EXCEPT !.main = IF try_recv = "Empty" THEN "poll" ELSE "exited"]
    /\ UNCHANGED not_replay

\* eventloop.poll() takes a request from the channel and sends it out.
MainPollRequest ==
    /\ replay.main = "poll"
    /\ replay.polled < Len(replay.emitted)
    /\ replay' = [replay EXCEPT !.main = "check", !.polled = @ + 1]
    /\ UNCHANGED not_replay

\* eventloop.poll() returns an event of the network.
MainPollEvent ==
    /\ replay.main = "poll"
    /\ replay' = [replay EXCEPT !.main = "check"]
    /\ UNCHANGED not_replay

\* A step of the spawned task.
ReplayTask ==
    ReplayListFiles \/ ReplayOpenFails \/ ReplayNextFile \/ ReplayLine \/ ReplayEndPass

\* A step of main.
ReplayMain == MainTryRecv \/ MainPollRequest \/ MainPollEvent

NextReplay ==
    \/ ReplayListFiles
    \/ ReplayOpenFails
    \/ ReplayNextFile
    \/ ReplayLine
    \/ ReplayEndPass
    \/ MainTryRecv
    \/ MainPollRequest
    \/ MainPollEvent

SpecReplay == InitReplay /\ [][NextReplay]_vars

\* The replays followed to their end: those of files of at most MaxLiveLines
\* lines.
InitReplayLive ==
    /\ InitReplay
    /\ \A i \in 1..Len(replay.files) : Len(replay.files[i].lines) <= MaxLiveLines

\* The runtime runs the spawned task while it can take a step, and main's
\* loop goes round: poll returns (the keep-alive makes events) and the
\* condition is looked at again.
SpecReplayLive ==
    /\ InitReplayLive /\ [][NextReplay]_vars
    /\ WF_vars(ReplayTask)
    /\ WF_vars(MainTryRecv)
    /\ WF_vars(MainPollRequest \/ MainPollEvent)

\* ------------------------------------------------------------ SpecLayout
\* Where the manager puts the files of a topic (get_intelligent_file_path,
\* src/src/file_manager.rs, and get_stats_file_path, src/src/stats.rs).  A
\* string is a sequence of characters; a PathBuf is [absolute, components],
\* its components being Path::components(): the string split at '/', without
\* the empty parts and the "." parts, ".." kept as a component.

\* The characters of the topics explored.
TopicChars == { "/", ".", "a" }

\* The topic strings a broker can deliver: non-empty.
TopicStrings == SeqsUpTo(TopicChars, MaxTopicLen) \ { << >> }

\* Path::is_absolute on Unix.
is_absolute(s) == s # << >> /\ Head(s) = "/"

\* Path::components of a string, without the root.
components(s) ==
    SelectSeq(split(s, "/"), LAMBDA part : part # << >> /\ part # << "." >>)

\* PathBuf::join: an absolute path replaces self, a relative one is pushed.
PathBuf_join(path, s) ==
    IF is_absolute(s) THEN [absolute |-> TRUE, components |-> components(s)]
    ELSE [path EXCEPT !.components = @ \o components(s)]

\* PathBuf::join of a string that is one normal component (a date, a file
\* name without '/').
PathBuf_push(path, name) == [path EXCEPT !.components = Append(@, name)]

\* The configured base directory (an absolute directory).
base_dir == [absolute |-> TRUE, components |-> << << "base" >> >>]

\* The PathBuf get_intelligent_file_path builds from the path
\* [dir, date, name, ts, num]:
\* base_dir.join(topic).join(date_str).join(format!("mqtt-recorder-{}-{}.json", ...))
intelligent_path_buf(path) ==
    PathBuf_push(PathBuf_push(PathBuf_join(base_dir, path.dir), << "%Y-%m-%d", path.date >>),
                 << "mqtt-recorder-" >> \o path.name \o << "-", path.ts, "-", path.num, ".json" >>)

\* StatsManager::get_stats_file_path
get_stats_file_path(topic) ==
    PathBuf_push(PathBuf_join(base_dir, topic),
                 << "mqtt-recorder-" >> \o topic_to_path(topic) \o << "-stats.txt" >>)

RECURSIVE resolve(_, _)
\* The directory entries the operating system walks for components, from
\* the entries walked so far: ".." goes to the parent (the root is its own).
resolve(walked, rest) ==
    IF rest = << >> THEN walked
    ELSE IF Head(rest) = << ".", "." >>
    THEN resolve(IF walked = << >> THEN << >> ELSE SubSeq(walked, 1, Len(walked) - 1),
                 Tail(rest))
    ELSE resolve(Append(walked, Head(rest)), Tail(rest))

InitLayout ==
    /\ now = 0
    /\ timeout_secs = 1
    /\ all_topics_enabled = FALSE
    /\ stats_enabled = TRUE
    /\ stats_interval_secs \in StatsIntervals
    /\ FreshManager
    /\ irecord = << >>
    /\ engine = << >>
    /\ discover = << >>
    /\ replay = << >>
    /\ codec = << >>
    /\ \E topic \in TopicStrings :
          layout = [ topic |-> topic, recording |-> << >>, stats |-> << >> ]

not_layout ==
    << now, config, manager, history, panicked, irecord, engine, discover, replay, codec >>

\* get_or_create_file creates the first file of the topic's session.
LayoutCreateFile ==
    /\ layout.recording = << >>
    /\ layout' = [layout EXCEPT !.recording =
          << intelligent_path_buf(
                 get_intelligent_file_path(layout.topic, Timestamp(now), 0, now)) >>]
    /\ UNCHANGED not_layout

\* The first flush of the topic's statistics opens its statistics file.
LayoutStatsFile ==
    /\ layout.stats = << >>
    /\ layout' = [layout EXCEPT !.stats = << get_stats_file_path(layout.topic) >>]
    /\ UNCHANGED not_layout

NextLayout ==
    \/ LayoutCreateFile
    \/ LayoutStatsFile

SpecLayout == InitLayout /\ [][NextLayout]_vars

\* ---------------------------------------------------- reading the state
RECURSIVE Flatten(_)
\* The lines of a sequence of files, concatenated.
Flatten(fs) == IF fs = << >> THEN << >> ELSE Head(fs).lines \o Flatten(Tail(fs))

Range(q) == { q[i] : i \in 1..Len(q) }

\* The recording files under <base>/<dir>/, in creation order.
FilesUnder(dir) == SelectSeq(disk, LAMBDA f : f.path.dir = dir)

TopicFiles(topic) == FilesUnder(topic)

AllTopicsFiles == FilesUnder(<<"#">>)

\* The records of all calls made, in order of arrival.
CallIds == [i \in 1..Len(calls) |-> i]

\* The records of the successful calls, in order of arrival.
OkRecords == SelectSeq(CallIds, LAMBDA i : calls[i].res = "ok")

\* The records of the calls for a topic, in order of arrival.
RecordsTo(topic) == SelectSeq(CallIds, LAMBDA i : calls[i].topic = topic)

\* The records of the successful calls for a topic, in order of arrival.
OkRecordsTo(topic) ==
    SelectSeq(CallIds, LAMBDA i : calls[i].topic = topic /\ calls[i].res = "ok")

CallsTo(topic) == { i \in 1..Len(calls) : calls[i].topic = topic }

AllOk(topic) == \A i \in CallsTo(topic) : calls[i].res = "ok"

\* The records a topic's statistics hold or have flushed.
StatsRecords(topic) ==
    (IF topic \in DOMAIN topic_stats THEN topic_stats[topic].data ELSE {})
    \cup UNION { line.samples : line \in Range(stats_files[topic]) }

\* Idle time of a stream at instant t, in ticks, against the timeout in ticks.
IdleExceedsTimeout(stream, t) == t - stream.last_access > timeout_secs * TicksPerSec

\* ------------------------------------------------------------------ claims

\* C1 (as claimed): after N >= 1 write_message calls to one topic, all
\* successful, with no stream of the topic closed for idleness or rotated at
\* the cap, the topic's stream is live with message count N and the topic has
\* exactly one file.
C1_CountEqualsWrites ==
    \A topic \in Topics :
        ( /\ CallsTo(topic) # {}
          /\ AllOk(topic)
          /\ topic \notin idled
          /\ topic \notin capped )
        => /\ topic \in DOMAIN files
           /\ files[topic].message_count = Cardinality(CallsTo(topic))
           /\ Len(TopicFiles(topic)) = 1

\* C2 (as claimed): the message count of every live stream, per-topic or
\* aggregate, is at most max_messages_per_file.
C2_CountWithinCap ==
    /\ \A topic \in DOMAIN files :
          files[topic].message_count <= max_messages_per_file
    /\ all_topics_file # << >> =>
          all_topics_file[1].message_count <= max_messages_per_file

C4_IdleGapStartsNewSession ==
    [][ \A topic \in Topics :
          ( /\ last_write[topic] # << >>
            /\ last_write'[topic] # last_write[topic]
            /\ last_write'[topic][1].time - last_write[topic][1].time
                  > timeout_secs * TicksPerSec )
          => /\ ~Exists(disk, last_write'[topic][1].path)
             /\ last_write'[topic][1].path.num = 0
             /\ last_write'[topic][1].path.ts # last_write[topic][1].path.ts
      ]_vars

\* C5 (as claimed): a topic's files, concatenated in creation order, hold
\* exactly the records of the successful write_message calls for the topic,
\* in order of arrival.
C5_TopicFilesHoldSuccessfulWrites ==
    \A topic \in Topics :
        Flatten(TopicFiles(topic)) = OkRecordsTo(topic)

\* C6: with the aggregate enabled, the aggregate files concatenated in creation
\* order hold exactly the records of the successful write_message calls, each
\* once, in order of arrival; with it disabled there is never an aggregate
\* stream, base timestamp or file.
C6_AggregateMirrorsSuccessfulWrites ==
    /\ all_topics_enabled =>
          Flatten(AllTopicsFiles) = OkRecords
    /\ ~all_topics_enabled =>
          /\ all_topics_file = << >>
          /\ all_topics_base_timestamp = << >>
          /\ AllTopicsFiles = << >>

C6_Witness ==
    /\ all_topics_enabled
    /\ Len(AllTopicsFiles) >= 2
    /\ \A topic \in Topics : \E i \in CallsTo(topic) : calls[i].res = "ok"
    /\ \E i \in 1..Len(calls) : calls[i].res # "ok"
    /\ Len(Flatten(AllTopicsFiles)) >= 3

\* C7 (as claimed): a write_message call in which the creation of the
\* per-topic file or of the aggregate file failed leaves its record in no file
\* and in no statistics.
C7_FailedCreationDropsWrite ==
    \A i \in 1..Len(calls) :
        calls[i].res \in { "topic_file_err", "all_topics_file_err" }
        => /\ \A k \in 1..Len(disk) : i \notin Range(disk[k].lines)
           /\ \A topic \in Topics : i \notin StatsRecords(topic)

C9_CleanupClosesIdleStreams ==
    LET s == cleanup_timeout_files(Manager, now) IN
    /\ \A topic \in DOMAIN files :
          IF IdleExceedsTimeout(files[topic], now)
          THEN /\ topic \notin DOMAIN s.files
               /\ topic \notin DOMAIN s.base_timestamps
               /\ topic \in DOMAIN s.topic_stats => s.topic_stats[topic].data = {}
          ELSE /\ topic \in DOMAIN s.files
               /\ s.files[topic] = files[topic]
               /\ topic \in DOMAIN s.base_timestamps
               /\ s.base_timestamps[topic] = base_timestamps[topic]
    /\ all_topics_file # << >> =>
          IF IdleExceedsTimeout(all_topics_file[1], now)
          THEN s.all_topics_file = << >> /\ s.all_topics_base_timestamp = << >>
          ELSE /\ s.all_topics_file = all_topics_file
               /\ s.all_topics_base_timestamp = all_topics_base_timestamp

\* C10 (as claimed): in irecord mode, for every value of --sec, no live stream
\* has been idle for more than 1.5 times the idle timeout.
C10_NoStreamIdleBeyondOneAndAHalfTimeouts ==
    irecord.pc = "running" =>
        \A topic \in DOMAIN irecord.files :
            2 * (now - irecord.files[topic].last_access)
                <= 3 * timeout_secs * TicksPerSec

\* The kind a value binds a fresh key-path to.
KindOf(value) == NewJsonValueType(value).kind

RECURSIVE ValuesAt(_, _, _)
\* The values among leaves that arrive at key_path and are of the kind given,
\* in order; none for the kind Other, which holds no values.
ValuesAt(leaves, key_path, kind) ==
    IF leaves = << >> THEN << >>
    ELSE (IF Head(leaves).key_path = key_path /\ kind # "Other"
             /\ KindOf(Head(leaves).value) = kind
          THEN << Head(leaves).value >> ELSE << >>)
         \o ValuesAt(Tail(leaves), key_path, kind)

\* The first of leaves that arrives at key_path.
FirstAt(leaves, key_path) ==
    leaves[CHOOSE i \in 1..Len(leaves) :
              /\ leaves[i].key_path = key_path
              /\ \A j \in 1..(i - 1) : leaves[j].key_path # key_path].value

\* The step is an add_message call.
IsAdd == engine'.messages > engine.messages

\* The step is a flush that wrote a line.
IsFlush == Len(engine'.stats_file) > Len(engine.stats_file)

\* The line the last flush wrote.
LastLine == engine.stats_file[Len(engine.stats_file)]

\* The statistic the line gives for key, as the set of the stats under that key.
StatsOf(line, key) == { line[i].stat : i \in { j \in 1..Len(line) : line[j].key = key } }

\* C11: an add_message call keeps the kind of every key-path that is bound and
\* appends to its samples exactly the arriving values of that kind, in order:
\* a value of another type changes nothing, raises nothing.  A key-path the
\* call binds is bound by the first value arriving at it, and later values of
\* another type in the same message are dropped likewise.
C11_FirstObservedTypeWins ==
    [][ IsAdd =>
          \A k \in DOMAIN engine'.data :
              LET bound == k \in DOMAIN engine.data
                  kind == IF bound THEN engine.data[k].kind
                          ELSE KindOf(FirstAt(engine'.extracted, k))
                  old == IF bound THEN engine.data[k].values ELSE << >>
              IN  /\ engine'.data[k].kind = kind
                  /\ engine'.data[k].values = old \o ValuesAt(engine'.extracted, k, kind)
      ]_vars

C11_Witness ==
    \E k \in DOMAIN engine.data :
        /\ engine.data[k].values # << >>
        /\ \E i \in 1..Len(engine.extracted) :
              /\ engine.extracted[i].key_path = k
              /\ KindOf(engine.extracted[i].value) # engine.data[k].kind
        /\ \A i \in 1..Len(engine.extracted) :
              engine.extracted[i].key_path = k
              => KindOf(engine.extracted[i].value) # engine.data[k].kind

\* C12 (as claimed): a flush that wrote a line leaves every key-path its
\* accumulator, of the same kind, with no samples.
C12_FlushKeepsAccumulators ==
    [][ IsFlush =>
          \A k \in DOMAIN engine.data :
              /\ k \in DOMAIN engine'.data
              /\ engine'.data[k] = [kind |-> engine.data[k].kind, values |-> << >>]
      ]_vars

\* C12 (amended): a flush that wrote a line leaves no accumulator at all, and a
\* key-path that an add_message call binds, whether or not it was bound in an
\* earlier window, gets the kind of the first value arriving at it.
C12_FlushDestroysAccumulators ==
    [][ /\ IsFlush => engine'.data = << >>
        /\ IsAdd =>
              \A k \in DOMAIN engine'.data \ DOMAIN engine.data :
                  engine'.data[k].kind = KindOf(FirstAt(engine'.extracted, k))
      ]_vars

C12_Witness ==
    \E k \in DOMAIN engine.data :
        /\ engine.stats_file # << >>
        /\ k \in DOMAIN engine.flushed
        /\ engine.data[k].kind # engine.first_kind[k]

\* C13 (as claimed): the line a flush writes has no entry for a key-path whose
\* accumulator is of the kind Other.
C13_UnsupportedKeyNotInLine ==
    engine.stats_file # << >> =>
        \A k \in DOMAIN engine.flushed :
            engine.flushed[k].kind = "Other" => StatsOf(LastLine, k) = {}

\* The population variance of xs as sum(x^2)/n - (sum(x)/n)^2, in thousandths.
PopulationVariance3(xs) ==
    LET n == Len(xs)
        s1 == SumOver([i \in 1..n |-> xs[i].n], 1)
        s2 == SumOver([i \in 1..n |-> xs[i].n * xs[i].n], 1)
    IN  Fixed3(Ratio(n * s2 - s1 * s1, n * n))

\* C14: the line a flush writes gives, for every key-path of kind Number with
\* samples x1..xn, n >= 1, the population variance of the samples to three
\* decimals, and nothing else for that key-path.
C14_NumberStatIsPopulationVariance ==
    engine.stats_file # << >> =>
        \A k \in DOMAIN engine.flushed :
            engine.flushed[k].kind = "Number" /\ engine.flushed[k].values # << >>
            => StatsOf(LastLine, k) = { PopulationVariance3(engine.flushed[k].values) }

\* Samples 1, 3, 5 at key a: the line says a:2.667.
C14_Witness ==
    /\ engine.stats_file # << >>
    /\ << "a" >> \in DOMAIN engine.flushed
    /\ engine.flushed[<< "a" >>].values = << ValueNumber(1), ValueNumber(3), ValueNumber(5) >>
    /\ StatsOf(LastLine, << "a" >>) = { 2667 }

\* The number of values of xs that no earlier value of xs equals, in
\* thousandths.
Distinct3(xs) ==
    Cardinality({ i \in 1..Len(xs) : \A j \in 1..(i - 1) : xs[j] # xs[i] }) * 1000

\* C15: the line a flush writes gives, for every key-path of kind String or
\* Boolean, the number of distinct values among its samples.
C15_StringStatIsDistinctCount ==
    engine.stats_file # << >> =>
        \A k \in DOMAIN engine.flushed :
            engine.flushed[k].kind \in { "String", "Boolean" }
            => StatsOf(LastLine, k) = { Distinct3(engine.flushed[k].values) }

\* Samples x, y, x at key a: the line says a:2.000.
C15_Witness ==
    /\ engine.stats_file # << >>
    /\ << "a" >> \in DOMAIN engine.flushed
    /\ engine.flushed[<< "a" >>].values
          = << ValueString(<< "x" >>), ValueString(<< "y" >>), ValueString(<< "x" >>) >>
    /\ StatsOf(LastLine, << "a" >>) = { 2000 }


\* ---------------------------------------------------------------- C16..C18
\* Whether the instant secs lies within the bounds, inclusive on each one
\* supplied.
InBounds(secs, start_time, end_time) ==
    /\ start_time # << >> => secs >= start_time[1].secs
    /\ end_time # << >> => secs <= end_time[1].secs

\* A listing whose supplied bounds are instants, at least one supplied.
ListedWithBounds ==
    /\ discover.listed
    /\ discover.start_time # << >> \/ discover.end_time # << >>
    /\ discover.start_time # << >> => discover.start_time[1].valid
    /\ discover.end_time # << >> => discover.end_time[1].valid

\* The JSON files under the directory whose name encodes an instant within
\* the bounds of the listing.
FilesInRange ==
    { f \in Directory :
        /\ f.ext = << Tok("json") >>
        /\ f.at # << >>
        /\ InBounds(f.at[1], discover.start_time, discover.end_time) }

\* The listing is in path order.
SortedByPath ==
    \A i \in 1..Len(discover.files) - 1 :
        PathLess(discover.files[i], discover.files[i + 1])

\* C16: with a time bound supplied, file discovery returns exactly the JSON
\* files under the directory whose name encodes a timestamp within the bounds
\* (inclusive), in either the standard or the per-topic grammar, sorted by
\* path.
C16_ListingIsFilesInRange ==
    ListedWithBounds =>
        /\ { discover.files[i] : i \in 1..Len(discover.files) } = FilesInRange
        /\ SortedByPath

\* C17: the name the Recording Stream Manager gives a per-topic or aggregate
\* file, for every topic and every file number, is decoded by the closure of
\* get_files_in_range to the base timestamp of that file.
C17_RecorderNamesDecodeToBaseTimestamp ==
    \A i \in 1..Len(disk) :
        file_dt(PathBufOf(disk[i].path).stem) = << disk[i].path.ts >>


\* The place of a listed file among the files the recorder made, in creation
\* order (0 for a file the recorder did not make).
CreationIndex(file) ==
    IF \E i \in 1..Len(disk) : ManagerFiles[i] = file
    THEN CHOOSE i \in 1..Len(disk) : ManagerFiles[i] = file
    ELSE 0

\* C18: the order of the listing is chronological: of two listed files the
\* recorder made, the one created earlier comes first, two files of one
\* session that differ only in their sequence suffix included.
C18_ListingIsInCreationOrder ==
    discover.listed =>
        \A i, j \in 1..Len(discover.files) :
            (/\ i < j
             /\ CreationIndex(discover.files[i]) > 0
             /\ CreationIndex(discover.files[j]) > 0)
            => CreationIndex(discover.files[i]) < CreationIndex(discover.files[j])


\* ---------------------------------------------------------------- C19, C20
\* The lines of the files of a pass that open, as [file, line].
ReplayPositions ==
    { p \in [file : 1..Len(replay.files), line : 1..MaxLines] :
        replay.files[p.file].opens /\ p.line <= Len(replay.files[p.file].lines) }

\* The line at a position.
LineAt(p) == replay.files[p.file].lines[p.line]

\* A record the replay is to emit: JSON of a MqttMessage whose payload decodes.
IsValidRecord(msg) == from_str(msg) # << >> /\ base64_decode(msg.msg_b64) # << >>

\* The emissions of a pass for a position.
EmissionsOf(pass, p) ==
    { i \in 1..Len(replay.emitted) :
        /\ replay.emitted[i].pass = pass
        /\ replay.emitted[i].file = p.file
        /\ replay.emitted[i].line = p.line }

\* C19: a line with malformed JSON or an undecodable payload is skipped:
\* nothing is emitted for it, and the replay goes on and emits every later
\* valid record of the pass.  Once the task of a single-pass replay is over,
\* every valid record of the files has been emitted, and nothing else.
C19_BadLinesAreSkipped ==
    (TaskOver /\ ~replay.loop_replay) =>
        \A p \in ReplayPositions :
            IF IsValidRecord(LineAt(p))
            THEN Cardinality(EmissionsOf(1, p)) = 1
            ELSE EmissionsOf(1, p) = {}

\* C20: every record emitted reaches the publish sink with the topic, QoS,
\* retain flag and payload of the recorded Message Record (a qos outside 0..2
\* counting as at most once).
C20_PublishCarriesTheRecord ==
    \A i \in 1..Len(replay.emitted) :
        LET msg == replay.files[replay.emitted[i].file].lines[replay.emitted[i].line]
            publish == replay.emitted[i].publish
        IN  /\ publish.topic = msg.topic
            /\ publish.qos = (IF msg.qos \in 0..2 THEN msg.qos ELSE 0)
            /\ publish.retain = msg.retain
            /\ << publish.payload >> = base64_decode(msg.msg_b64)


\* ---------------------------------------------------------------- C21..C23
\* The recorded time of the i-th emission.
TimeOf(i) == LineAt(replay.emitted[i]).time

\* Whether the i-th emission is the first of its pass.
FirstOfPass(i) == i = 1 \/ replay.emitted[i - 1].pass # replay.emitted[i].pass

\* C21: in each pass the first record is emitted with no sleep, and every
\* later record is preceded by a sleep of max(0, (record.time -
\* previous.time) * 1000 / speed) milliseconds (in whole milliseconds, as a
\* Duration of milliseconds holds), previous being the record emitted just
\* before it in the pass, also across a file boundary.
C21_SleepIsScaledGap ==
    \A i \in 1..Len(replay.emitted) :
        LET slept == replay.emitted[i].slept
            gap == TimeOf(i) - TimeOf(i - 1)
        IN  IF FirstOfPass(i) THEN slept = 0
            ELSE IF gap < 0 THEN slept = 0
            ELSE /\ slept * replay.speed <= gap
                 /\ gap < (slept + 1) * replay.speed

\* Times 10.0 and 12.0 at speed 2.0 across a file boundary give 1000 ms; a
\* later step back in time gives no sleep.
C21_Witness ==
    /\ replay.speed = 2
    /\ \E i \in 2..Len(replay.emitted) :
          /\ ~FirstOfPass(i)
          /\ replay.emitted[i].file # replay.emitted[i - 1].file
          /\ TimeOf(i - 1) = 10000 /\ TimeOf(i) = 12000
          /\ replay.emitted[i].slept = 1000
    /\ \E i \in 2..Len(replay.emitted) :
          /\ ~FirstOfPass(i)
          /\ TimeOf(i) < TimeOf(i - 1)
          /\ replay.emitted[i].slept = 0


\* Every valid record of the files has been emitted exactly once in the pass,
\* and nothing else.
PassEmitted(pass) ==
    \A p \in ReplayPositions :
        Cardinality(EmissionsOf(pass, p)) = (IF IsValidRecord(LineAt(p)) THEN 1 ELSE 0)

\* C22: when loop is false the task makes exactly one pass over the files,
\* emitting each valid record once, then signals completion, after which main
\* stops polling; when loop is true and there are files, completion is never
\* signalled and the passes repeat.
C22_OnePassThenStopOrRepeat ==
    /\ (~replay.loop_replay /\ replay.files # << >>) =>
          <>(replay.stop_sent /\ replay.pass = 1 /\ PassEmitted(1) /\ MainExited)
    /\ (replay.loop_replay /\ replay.files # << >>) =>
          ([](~replay.stop_sent) /\ <>(replay.pass = MaxPasses /\ PassEmitted(1)))


\* C23: if discovery returns no files, replay emits no message and ends
\* without error whatever the loop flag: the task ends at once and main
\* stops polling.
C23_NoFilesEndsQuietly ==
    (replay.files = << >>) =>
        /\ [](replay.emitted = << >> /\ replay.task # "panicked" /\ ~replay.stop_sent)
        /\ <>(replay.task = "ended" /\ MainExited)

\* A looping replay of no files, over.
C23_Witness ==
    /\ replay.files = << >>
    /\ replay.loop_replay
    /\ replay.task = "ended"
    /\ replay.pass = 1
    /\ MainExited


\* ---------------------------------------------------------------------- C24
\* C24: decoding the msg_b64 that encoding a payload produced yields the
\* payload byte for byte: a message recorded and then replayed is published
\* with the payload that was received.
C24_PayloadRoundTrip ==
    /\ codec.stage # "panicked"
    /\ codec.stage = "replayed" => codec.published = << codec.payload >>

\* A payload of two groups with bytes that need '+' and '/', replayed.
C24_Witness ==
    /\ codec.stage = "replayed"
    /\ Len(codec.payload) = MaxPayloadLen
    /\ \E i, j \in 1..Len(codec.msg_b64) : codec.msg_b64[i] = "+" /\ codec.msg_b64[j] = "/"
    /\ codec.msg_b64[Len(codec.msg_b64)] = "="
    /\ codec.published = << codec.payload >>


\* ---------------------------------------------------------------- C25, C26
\* A stream at or above the message cap.
AtCap(stream) == stream.message_count >= max_messages_per_file

\* The step is a successful write_message(topic, ...).
WroteTo(topic) ==
    /\ Len(calls') = Len(calls) + 1
    /\ calls'[Len(calls')].topic = topic
    /\ calls'[Len(calls')].res = "ok"

\* The write left the stream cur for a new one of a new session: created by
\* this write, with sequence 0 and a base timestamp generated now.
TimeoutRotation(cur, next, base) ==
    /\ next.path # cur.path
    /\ ~Exists(disk, next.path)
    /\ next.file_number = 0
    /\ next.path.num = 0
    /\ next.path.ts = Timestamp(now)
    /\ base = << Timestamp(now) >>

\* C25: the rotation policy is evaluated at write time, timeout before cap: a
\* write to a stream that is both idle beyond the timeout and at or above the
\* cap makes a timeout rotation and not a cap rotation; a write to a stream
\* that is neither reuses the stream and creates no file.  Per-topic and
\* aggregate streams alike.
C25_TimeoutBeforeCap ==
    [][ \A topic \in Topics :
          WroteTo(topic) =>
            /\ topic \in DOMAIN files =>
                 /\ (IdleExceedsTimeout(files[topic], now) /\ AtCap(files[topic]))
                      => TimeoutRotation(files[topic], files'[topic],
                                         << base_timestamps'[topic] >>)
                 /\ (~IdleExceedsTimeout(files[topic], now) /\ ~AtCap(files[topic]))
                      => /\ files'[topic].path = files[topic].path
                         /\ Len(SelectSeq(disk', LAMBDA f : f.path.dir = topic))
                              = Len(TopicFiles(topic))
            /\ (all_topics_enabled /\ all_topics_file # << >>) =>
                 /\ (IdleExceedsTimeout(all_topics_file[1], now) /\ AtCap(all_topics_file[1]))
                      => TimeoutRotation(all_topics_file[1], all_topics_file'[1],
                                         all_topics_base_timestamp')
                 /\ (~IdleExceedsTimeout(all_topics_file[1], now) /\ ~AtCap(all_topics_file[1]))
                      => /\ all_topics_file'[1].path = all_topics_file[1].path
                         /\ Len(SelectSeq(disk', LAMBDA f : f.path.dir = <<"#">>))
                              = Len(AllTopicsFiles)
      ]_vars


\* The files of one session: sequence numbers 0, 1, 2, ... in creation
\* order, all with one base timestamp.
OneSession(fs) ==
    \A i \in 1..Len(fs) :
        /\ fs[i].path.num = i - 1
        /\ fs[i].path.ts = fs[1].path.ts

\* The stream writes to the last of the files fs, under its sequence number,
\* and its count has restarted with the file: a file holding one record has
\* a stream with count 1.
AtLastFile(stream, fs) ==
    /\ fs # << >>
    /\ stream.path = fs[Len(fs)].path
    /\ stream.file_number = Len(fs) - 1
    /\ Len(fs[Len(fs)].lines) = 1 => stream.message_count = 1

\* C26: within one session of a stream (no idle timeout and no creation
\* failure in between) the cap rotations create files numbered 0, 1, 2, ...
\* without gap or repeat, all with the same base timestamp, and the message
\* count restarts at each rotation.  Per-topic and aggregate streams alike.
C26_SessionFilesAreNumberedInOrder ==
    /\ \A topic \in Topics :
          (CallsTo(topic) # {} /\ AllOk(topic) /\ topic \notin idled)
          => /\ OneSession(TopicFiles(topic))
             /\ topic \in DOMAIN files
             /\ AtLastFile(files[topic], TopicFiles(topic))
    /\ ( /\ all_topics_enabled
         /\ calls # << >>
         /\ \A topic \in Topics : AllOk(topic)
         /\ now <= timeout_secs * TicksPerSec )
       => /\ OneSession(AllTopicsFiles)
          /\ all_topics_file # << >>
          /\ AtLastFile(all_topics_file[1], AllTopicsFiles)

\* A topic and the aggregate, each with the files 0, 1 and 2 of one session.
C26_Witness ==
    /\ \E topic \in Topics :
          /\ AllOk(topic) /\ topic \notin idled
          /\ Len(TopicFiles(topic)) = 3
          /\ now > 0
    /\ all_topics_enabled
    /\ now <= timeout_secs * TicksPerSec
    /\ Len(AllTopicsFiles) = 3


\* ---------------------------------------------------------------- C27, C28
\* The step is a calculate_and_write_stats call.
IsFlushCall == engine'.messages = engine.messages

\* C27: flushing an accumulator that holds no data is a no-op (no line is
\* appended, the accumulator is unchanged), and a payload that contributes
\* nothing to the statistics (not JSON, or only unsupported leaves) does not
\* by itself cause a line: every line written comes from a window with a
\* value of a supported kind.
C27_NothingToFlushWritesNothing ==
    [][ /\ (IsFlushCall /\ engine.data = << >>) =>
              /\ engine'.stats_file = engine.stats_file
              /\ engine'.data = engine.data
        /\ IsFlush => \E k \in DOMAIN engine.data : engine.data[k].kind # "Other"
      ]_vars


\* The time since the window start of a topic's accumulator, in ticks.
WindowElapsed(st, t) == t - st.last_stats_time

\* The configured interval, in ticks.
IntervalTicks == stats_interval_secs * TicksPerSec

Processed(p) ==
    /\ replay.task # "list"
    /\ \/ p.file < replay.file
       \/ p.file = replay.file /\ p.line < replay.line

\* A line that is JSON with the five fields, whose payload decodes.
IsRecordJson(line) == line.json /\ base64_decode(line.msg_b64) # << >>

\* C29 (as claimed): a record whose qos field is an integer outside 0..2 is
\* still emitted, with QoS 0; it does not abort the replay and is not emitted
\* with another QoS.
C29_OutOfRangeQosEmittedAsZero ==
    \A p \in ReplayPositions :
        (Processed(p) /\ IsRecordJson(LineAt(p)) /\ LineAt(p).qos \notin 0..2) =>
            /\ Cardinality(EmissionsOf(replay.pass, p)) = 1
            /\ \A i \in EmissionsOf(replay.pass, p) : replay.emitted[i].publish.qos = 0

\* C29 (amended): a record whose qos is in 3..255 is emitted once, with
\* QoS 0, when the task reads it; a line whose qos does not fit a u8 is not a
\* record: it is skipped with nothing emitted, and the task reads on.  No
\* emission carries a QoS other than the recorded 0, 1 or 2, or 0.
C29_U8QosOutOfRangeEmittedAsZero ==
    /\ \A p \in ReplayPositions :
          (Processed(p) /\ IsRecordJson(LineAt(p))) =>
              /\ LineAt(p).qos \in 3..255 =>
                    /\ Cardinality(EmissionsOf(replay.pass, p)) = 1
                    /\ \A i \in EmissionsOf(replay.pass, p) :
                          replay.emitted[i].publish.qos = 0
              /\ LineAt(p).qos \notin 0..255 => EmissionsOf(replay.pass, p) = {}
    /\ \A i \in 1..Len(replay.emitted) :
          replay.emitted[i].publish.qos =
              (IF LineAt(replay.emitted[i]).qos \in 0..2
               THEN LineAt(replay.emitted[i]).qos ELSE 0)

\* One file holding a record of qos 256 and then a record of qos 3, read to
\* the end: the second is out with QoS 0, the first is not.
C29_Witness ==
    /\ replay.task = "ended"
    /\ replay.stop_sent
    /\ \E f \in 1..Len(replay.files) :
          /\ replay.files[f].opens
          /\ Len(replay.files[f].lines) = 2
          /\ replay.files[f].lines[1].qos = 256
          /\ replay.files[f].lines[2].qos = 3
          /\ EmissionsOf(1, [file |-> f, line |-> 1]) = {}
          /\ \E i \in EmissionsOf(1, [file |-> f, line |-> 2]) :
                replay.emitted[i].publish.qos = 0



\* ---------------------------------------------------------------------- C30
\* The task has finished the pass, or is over in it.
PassOver(pass) == pass < replay.pass \/ (pass = replay.pass /\ TaskOver)

\* The i-th emission comes from an earlier pass than the j-th, or from the
\* same pass and an earlier file, or from the same file and an earlier line.
EmittedBefore(i, j) ==
    LET a == replay.emitted[i]
        b == replay.emitted[j]
    IN  \/ a.pass < b.pass
        \/ a.pass = b.pass /\ a.file < b.file
        \/ a.pass = b.pass /\ a.file = b.file /\ a.line < b.line

\* C30: in a pass the emitted sequence is the concatenation, over the files in
\* discovery order, of each file's valid records in line order: emissions
\* follow the order of files and of lines (no interleaving), and when the
\* pass is over every valid record of every file that opens has been emitted
\* once and nothing else has, a file that does not open being skipped.
C30_PassIsConcatenationOfFiles ==
    /\ \A i, j \in 1..Len(replay.emitted) : i < j => EmittedBefore(i, j)
    /\ \A pass \in 1..MaxPasses : PassOver(pass) => PassEmitted(pass)



\* ---------------------------------------------------------------------- C31
\* C31: every live per-topic stream has a base timestamp recorded for its
\* topic, and a live aggregate stream has an aggregate base timestamp, also
\* after a failed file creation: the lookup of the existing base timestamp at
\* a cap rotation never fails, and no call panics.
C31_LiveStreamsHaveBaseTimestamps ==
    /\ \A topic \in DOMAIN files : topic \in DOMAIN base_timestamps
    /\ all_topics_file # << >> => all_topics_base_timestamp # << >>
    /\ ~panicked

\* The state a failed cap rotation leaves: the call returned the error, the
\* topic's stream is gone, its base timestamp is still on record and the
\* first file of that session is on disk.
C31_Witness ==
    /\ calls # << >>
    /\ calls[Len(calls)].res = "topic_file_err"
    /\ LET topic == calls[Len(calls)].topic IN
       /\ topic \notin DOMAIN files
       /\ topic \in DOMAIN base_timestamps
       /\ Exists(disk, get_intelligent_file_path(topic, base_timestamps[topic], 0, now))


\* ---------------------------------------------------------------------- C32
\* The step is a write_message to topic that found the stream at its cap (and
\* not idle) and returned the error of the file creation.
CapRotationFails(topic) ==
    /\ topic \in DOMAIN files
    /\ ~timed_out(files[topic], now)
    /\ message_limit_reached(files[topic])
    /\ Len(calls') = Len(calls) + 1
    /\ calls'[Len(calls')] = [topic |-> topic, res |-> "topic_file_err"]

\* C32: if file creation fails during a cap rotation of a topic, the session
\* survives: the old stream stays live, or the next write attempts sequence
\* previous+1 under the same base timestamp; the next write does not start a
\* new session with a fresh base timestamp and sequence 0.
C32_SessionSurvivesFailedRotation ==
    [][ \A topic \in Topics :
          CapRotationFails(topic) =>
              \/ topic \in DOMAIN files' /\ files'[topic] = files[topic]
              \/ LET r == get_or_create_file(Manager', topic, now', FALSE) IN
                 /\ r.res = "ok"
                 /\ r.s.files[topic].file_number = files[topic].file_number + 1
                 /\ r.s.base_timestamps[topic] = base_timestamps[topic]
      ]_vars



\* ---------------------------------------------------------------------- C33
\* The file at path lies under the base directory.
UnderBase(path) ==
    LET file == resolve(<< >>, path.components)
        base == resolve(<< >>, base_dir.components)
    IN  /\ path.absolute
        /\ Len(file) > Len(base)
        /\ SubSeq(file, 1, Len(base)) = base

\* C33: every recording file and statistics file the manager creates lies
\* under the configured base directory, for every non-empty topic string
\* (also one that begins with '/' or has '..' segments).
C33_FilesLieUnderBaseDir ==
    /\ layout.recording # << >> => UnderBase(layout.recording[1])
    /\ layout.stats # << >> => UnderBase(layout.stats[1])



\* ---------------------------------------------------------------------- C34
\* C34: in a replay that does not loop, every publish request the task has
\* put on the request channel has been taken by a poll of the event loop by
\* the time main has seen the completion signal and stopped polling.
C34_NoPublishLeftAtTermination ==
    (~replay.loop_replay /\ replay.stop_sent /\ MainExited)
        => replay.polled = Len(replay.emitted)



\* ---------------------------------------------------------------------- C35
\* C35: the get_files_in_range the replay binary calls (main.rs) and the
\* library's (replay.rs) return the same ordered list for every directory
\* content and every start and end bound, also for files of the per-topic
\* grammar when a bound is given.
C35_BinaryListingIsLibraryListing ==
    discover.listed =>
        main_get_files_in_range(Directory, discover.start_time, discover.end_time)
            = get_files_in_range(Directory, discover.start_time, discover.end_time)

====
